---- MODULE Spec2Model ----
(***************************************************************************)
(* Message event pipeline of dexter.js: the messages.upsert handler        *)
(* (normalisation, media cache, INSERT, rule matching and response         *)
(* dispatch), the messages.update handler with handleDeletedMessage, the   *)
(* bulk clear of handleDelete, and the wall clock read by Date.now().      *)
(*                                                                         *)
(* Handlers are async functions started by the event emitter and never     *)
(* awaited by it, so several handlers are in flight at once and interleave *)
(* at their awaits.  One action is one resumption of one handler: the      *)
(* awaited operation completes (with its effect on the store, if any) and  *)
(* the synchronous code after it runs up to the next await.                *)
(*                                                                         *)
(* Strings are sequences of tokens (single characters, or an indivisible   *)
(* piece of text such as a JSON key); substring search, lower-casing and   *)
(* replacement work token by token.                                        *)
(***************************************************************************)
EXTENDS Integers, Sequences, FiniteSets, TLC

VARIABLES
    store,       \* rows of table messages, in insertion order
    mediaCache,  \* the Map mediaCache: message id -> cached media entry
    replyRules,  \* the parsed reply.json document
    clock,       \* Date.now() / NOW(), in milliseconds
    tasks,       \* the event handlers in flight, each with its position and locals
    sent,        \* every conn.sendMessage that completed, in order
    console,     \* the kinds of lines written by console.error so far
    paths,       \* which of the status-save, rule and command branches the handler of
                 \* a message id has entered
    quota        \* how many more things the environment does (events, clock steps,
                 \* failures), and whether it lets awaited operations fail at all

vars == <<store, mediaCache, replyRules, clock, tasks, sent, console, paths, quota>>

\* undefined / null / SQL NULL, for values that are strings, jids or timestamps
NULL == <<"null">>

\* undefined / null, for values that are objects
NONE == [none |-> TRUE]

-----------------------------------------------------------------------------
(* Bounds of the model *)

\* what the environment does in one behaviour: events delivered, steps of the clock
\* and failures of awaited operations, counted together
MaxEvents == 3

-----------------------------------------------------------------------------
(* Strings *)

EMPTY == <<>>

\* String.prototype.toLowerCase on one token
LowerTok(c) ==
    CASE c = "M" -> "m"
      [] c = "E" -> "e"
      [] c = "N" -> "n"
      [] c = "U" -> "u"
      [] c = "H" -> "h"
      [] c = "I" -> "i"
      [] c = "PING" -> "ping"
      [] c = "CLEAR" -> "clear"
      [] c = "DELETE" -> "delete"
      [] OTHER -> c

toLowerCase(s) == [i \in 1..Len(s) |-> LowerTok(s[i])]

\* String.prototype.indexOf: the first position where sub occurs in s, 0 if none
\* (JavaScript's -1)
indexOf(s, sub) ==
    IF \E i \in 1..(Len(s) - Len(sub) + 1) : SubSeq(s, i, i + Len(sub) - 1) = sub
    THEN CHOOSE i \in 1..(Len(s) - Len(sub) + 1) :
            /\ SubSeq(s, i, i + Len(sub) - 1) = sub
            /\ \A j \in 1..(i - 1) : SubSeq(s, j, j + Len(sub) - 1) # sub
    ELSE 0

\* String.prototype.includes
includes(s, sub) == indexOf(s, sub) # 0

\* String.prototype.startsWith
startsWith(s, prefix) ==
    Len(s) >= Len(prefix) /\ SubSeq(s, 1, Len(prefix)) = prefix

\* JavaScript truthiness of an optional string: undefined, null and '' are falsy
Truthy(s) == s # NULL /\ s # EMPTY

\* x || ''  for an optional string
OrEmpty(s) == IF Truthy(s) THEN s ELSE EMPTY

\* JSON.stringify({ caption, mimetype })
StringifyEnvelope(caption, mimetype) ==
    <<"{\"caption\":\"">> \o caption \o <<"\",\"mimetype\":\"">> \o mimetype \o <<"\"}">>

\* JSON.stringify(messageContent) for a content kind that is neither text nor media
StringifyContent(type) == <<"{\"", type, "\":{}}">>

-----------------------------------------------------------------------------
(* Regular expressions: the patterns of the model are literals with an       *)
(* optional leading ^ and trailing $; a pattern holding an unclosed "("      *)
(* makes new RegExp throw.                                                   *)

RegExpCompiles(pattern) == \A i \in 1..Len(pattern) : pattern[i] # "("

RegExpBody(pattern) ==
    LET a == IF Len(pattern) > 0 /\ pattern[1] = "^" THEN Tail(pattern) ELSE pattern
    IN  IF Len(a) > 0 /\ a[Len(a)] = "$" THEN SubSeq(a, 1, Len(a) - 1) ELSE a

\* new RegExp(pattern, 'i').test(text)
RegExpTest(pattern, text) ==
    LET body == toLowerCase(RegExpBody(pattern))
        t == toLowerCase(text)
        atStart == Len(pattern) > 0 /\ pattern[1] = "^"
        atEnd == Len(pattern) > 0 /\ pattern[Len(pattern)] = "$"
    IN  \E i \in 1..(Len(t) - Len(body) + 1) :
            /\ SubSeq(t, i, i + Len(body) - 1) = body
            /\ atStart => i = 1
            /\ atEnd => i + Len(body) - 1 = Len(t)

-----------------------------------------------------------------------------
(* Rule matching *)

\* rule.trigger && messageText.toLowerCase().includes(rule.trigger.toLowerCase())
TriggerMatch(rule, messageText) ==
    /\ Truthy(rule.trigger)
    /\ includes(toLowerCase(messageText), toLowerCase(rule.trigger))

\* a use of the trigger test after a pattern that compiled and did not match
IsMatchTriggerAfterPattern(rule, messageText) ==
    IF Truthy(rule.pattern)
    THEN IF RegExpCompiles(rule.pattern)
         THEN RegExpTest(rule.pattern, messageText) \/ TriggerMatch(rule, messageText)
         ELSE TriggerMatch(rule, messageText)
    ELSE TriggerMatch(rule, messageText)

\* an invalid pattern that ends the evaluation of the rule instead of falling back
IsMatchNoFallback(rule, messageText) ==
    IF Truthy(rule.pattern)
    THEN RegExpCompiles(rule.pattern) /\ RegExpTest(rule.pattern, messageText)
    ELSE TriggerMatch(rule, messageText)

\* the value of isMatch for one rule
IsMatch(rule, messageText) ==
    IF Truthy(rule.pattern)
    THEN IF RegExpCompiles(rule.pattern)
         THEN RegExpTest(rule.pattern, messageText)
         ELSE TriggerMatch(rule, messageText)
    ELSE TriggerMatch(rule, messageText)

RECURSIVE RuleLoopLast(_, _, _)
\* a rule loop without its break: the last matching rule is the one kept
RuleLoopLast(rules, i, messageText) ==
    IF i > Len(rules) THEN 0
    ELSE LET later == RuleLoopLast(rules, i + 1, messageText)
         IN  IF later # 0 THEN later
             ELSE IF IsMatch(rules[i], messageText) THEN i ELSE 0

RECURSIVE RuleLoop(_, _, _)
\* for (const rule of replyRules.rules) { ... if (isMatch) { ...; break; } }
\* from rule i on: the index of the rule whose body runs, 0 if the loop ends without one
RuleLoop(rules, i, messageText) ==
    IF i > Len(rules) THEN 0
    ELSE IF IsMatch(rules[i], messageText) THEN i
    ELSE RuleLoop(rules, i + 1, messageText)

-----------------------------------------------------------------------------
(* Message store: table messages.  The surrogate key id and the columns     *)
(* timestamp and sri_lanka_time are written and never read by the handlers  *)
(* modelled here; they are left out of the row.                             *)

\* the row built by INSERT INTO messages (...) VALUES ($1 .. $8), defaults for the rest
NewRow(message_id, sender_jid, remote_jid, message_text, message_type, image_url, auto_reply_sent) ==
    [message_id |-> message_id, sender_jid |-> sender_jid, remote_jid |-> remote_jid,
     message_text |-> message_text, message_type |-> message_type,
     image_url |-> image_url, is_deleted |-> FALSE, deleted_at |-> NULL,
     deleted_by |-> NULL, auto_reply_sent |-> auto_reply_sent]

\* INSERT INTO messages: message_id carries no UNIQUE constraint
Insert(rows, row) == Append(rows, row)

\* an update that sets the flag and leaves deleted_by out
MarkDeletedNoDeleter(rows, deleterJid, id, now) ==
    [i \in 1..Len(rows) |->
        IF rows[i].message_id = id
        THEN [rows[i] EXCEPT !.is_deleted = TRUE, !.deleted_at = <<"at", now>>]
        ELSE rows[i]]

\* UPDATE messages SET is_deleted = TRUE, deleted_at = NOW(), deleted_by = $1
\* WHERE message_id = $2
MarkDeleted(rows, deleterJid, id, now) ==
    [i \in 1..Len(rows) |->
        IF rows[i].message_id = id
        THEN [rows[i] EXCEPT !.is_deleted = TRUE, !.deleted_at = <<"at", now>>,
                             !.deleted_by = deleterJid]
        ELSE rows[i]]

\* UPDATE messages SET auto_reply_sent = TRUE WHERE message_id = $1
MarkAutoReplied(rows, id) ==
    [i \in 1..Len(rows) |->
        IF rows[i].message_id = id
        THEN [rows[i] EXCEPT !.auto_reply_sent = TRUE]
        ELSE rows[i]]

\* a SELECT that has lost its WHERE clause
SelectAll(rows, id) == {rows[i] : i \in 1..Len(rows)}

\* SELECT * FROM messages WHERE message_id = $1: the rows returned, as a set (the
\* statement has no ORDER BY, so which of them is rows[0] is not determined)
SelectById(rows, id) == {rows[i] : i \in {j \in 1..Len(rows) : rows[j].message_id = id}}

\* DELETE FROM messages, committed
ClearedRows(rows) == <<>>

-----------------------------------------------------------------------------
(* Media cache *)

TTL == 3600000

\* mediaCache.set(id, entry)
CacheSet(cache, id, entry) ==
    [i \in (DOMAIN cache) \cup {id} |-> IF i = id THEN entry ELSE cache[i]]

\* a sweep that also drops the entries whose age is exactly the TTL
SweepAtTTL(cache, now) ==
    [i \in {j \in DOMAIN cache : ~(now - cache[j].timestamp >= TTL)} |-> cache[i]]

\* for (const [id, { timestamp }] of mediaCache) if (now - timestamp > TTL) delete(id)
Sweep(cache, now) ==
    [i \in {j \in DOMAIN cache : ~(now - cache[j].timestamp > TTL)} |-> cache[i]]

\* mediaCache.get(id)
CacheGet(cache, id) == IF id \in DOMAIN cache THEN cache[id] ELSE NONE

-----------------------------------------------------------------------------
(* Inbound events *)

\* jids are <<user, server>>: jid.split('@')[0] is jid[1]
restrictedNumber == <<"94789958225", "s.whatsapp.net">>
ownerNumber == {"94789958225"}
statusBroadcast == <<"status", "broadcast">>
defaultDpUrl == <<"https://i.imgur.com/default-profile.jpg">>

statusTriggers ==
    { <<"s","e","n","d">>, <<"S","e","n","d">>, <<"S","e","v","e">>, <<"E","w","p","m">>,
      <<"e","w","p","n">>, <<"D","a","p","a","n">>, <<"d","a","p","a","n">>,
      <<"o","n","i">>, <<"O","n","i">>, <<"s","a","v","e">>, <<"S","a","v","e">>,
      <<"e","w","a","n","n","a">>, <<"E","w","a","n","n","a">>, <<"e","w","a","m">>,
      <<"E","w","a","m">>, <<"s","v">>, <<"S","v">>, <<"දාන්න">>, <<"එවම්න">> }

WrapperTypes == {"ephemeralMessage", "viewOnceMessageV2"}
MediaTypes == {"imageMessage", "videoMessage", "audioMessage"}

\* A message is its wrappers, outermost first, around a leaf; getContentType gives
\* the key of the outermost object.
getContentType(m) == IF m.layers # <<>> THEN Head(m.layers) ELSE m.leaf.type

\* messageContent.<wrapper>.message
InnerMessage(m) == [m EXCEPT !.layers = Tail(@)]

\* lines 460-467: one ephemeral wrapper, then one view-once wrapper
Unwrap(m) ==
    LET a == IF getContentType(m) = "ephemeralMessage" THEN InnerMessage(m) ELSE m
    IN  IF getContentType(a) = "viewOnceMessageV2" THEN InnerMessage(a) ELSE a

\* mek.key.participant || mek.key.remoteJid
SenderOf(key) == IF key.participant # NULL THEN key.participant ELSE key.remoteJid

\* a resolution that prefers the conversation id
DeleterOfRemoteFirst(key) == IF key.remoteJid # NULL THEN key.remoteJid ELSE key.participant

\* const deleterJid = participant || remoteJid
DeleterOf(key) == IF key.participant # NULL THEN key.participant ELSE key.remoteJid

\* the { caption, mimetype } envelope stored as text of a media message
EnvelopeOf(leaf) == StringifyEnvelope(OrEmpty(leaf.caption), leaf.mimetype)

-----------------------------------------------------------------------------
(* Handlers in flight *)

Done(caught) == [kind |-> "done", caught |-> caught]

\* the locals of a messages.upsert handler
UpsertTask(mek, pc, messageContent, messageText) ==
    [kind |-> "upsert", pc |-> pc, mek |-> mek, messageContent |-> messageContent,
     messageType |-> getContentType(messageContent), messageText |-> messageText,
     buffer |-> NULL, imageUrl |-> NULL, senderDpUrl |-> defaultDpUrl,
     rule |-> 0, response |-> <<>>, item |-> 0, marks |-> 0,
     timerAt |-> 0, reply |-> NULL, doc |-> NONE, txnRows |-> 0, ran |-> {}]

\* an upsert handler that returns (caught: through the outer catch) after the
\* branches in ran
Finish(task, caught) == [kind |-> "done", caught |-> caught, ran |-> task.ran]

\* the locals of a messages.update handler: the updates not yet finished (the head is
\* the one handleDeletedMessage is working on) and that call's locals
UpdateTask(updates, pc) ==
    [kind |-> "update", pc |-> pc, updates |-> updates, originalMessage |-> NONE,
     cachedMedia |-> NONE, caught |-> FALSE]

At(t, kind, pc) == t \in DOMAIN tasks /\ tasks[t].kind = kind /\ tasks[t].pc = pc

\* an awaited operation may fail if the environment is a failing one and has
\* something left to do
Outcomes == IF quota.faulty /\ quota.events > 0 THEN {TRUE, FALSE} ELSE {TRUE}

Spend(ok) == IF ok THEN quota ELSE [quota EXCEPT !.events = @ - 1]

Deliver == quota.events > 0 /\ quota' = [quota EXCEPT !.events = @ - 1]

\* console.error(line) when failed, nothing otherwise
Log(failed, line) == console' = IF failed THEN console \cup {line} ELSE console

\* a timer of ms milliseconds started at start fires: not before its time has come
TimerFires(start, ms) ==
    \E late \in {0, 1} :
        clock' = IF clock > start + ms + late THEN clock ELSE start + ms + late

-----------------------------------------------------------------------------
(* Template substitution *)

\* the replacement text of String.prototype.replace(string, string): in it $$ stands
\* for a dollar sign and $& for the matched text
RECURSIVE ExpandReplacement(_, _)
ExpandReplacement(replacement, matched) ==
    IF replacement = <<>> THEN <<>>
    ELSE LET c == Head(replacement)
             rest == ExpandReplacement(Tail(replacement), matched)
         IN  CASE c = "$$" -> <<"$">> \o rest
               [] c = "$&" -> matched \o rest
               [] OTHER -> <<c>> \o rest

\* s.replace(placeholder, value): the first occurrence only
Replace(s, placeholder, value) ==
    LET at == indexOf(s, placeholder)
    IN  IF at = 0 THEN s
        ELSE SubSeq(s, 1, at - 1) \o ExpandReplacement(value, placeholder)
             \o SubSeq(s, at + Len(placeholder), Len(s))

\* lines 680-694, for one of content, caption, url
Substitute(s, pushName, userId, senderDpUrl) ==
    IF Truthy(s)
    THEN Replace(Replace(Replace(s, <<"${pushname}">>, pushName),
                         <<"${userid}">>, userId),
                 <<"${senderdpurl}">>, senderDpUrl)
    ELSE s

\* mek.pushName || 'Unknown'
PushNameOf(mek) == IF Truthy(mek.pushName) THEN mek.pushName ELSE <<"Unknown">>

-----------------------------------------------------------------------------
(* Command dispatch, lines 740-800 *)

\* the position of the first ' ' of s at or after from, Len(s) + 1 if none
SpaceAt(s, from) ==
    IF \E i \in from..Len(s) : s[i] = " "
    THEN CHOOSE i \in from..Len(s) : s[i] = " " /\ \A j \in from..(i - 1) : s[j] # " "
    ELSE Len(s) + 1

\* messageText.split(' ')[0]
CommandOf(s) == SubSeq(s, 1, SpaceAt(s, 1) - 1)

\* messageText.split(' ')[1], undefined if there is none
FirstArgOf(s) ==
    IF SpaceAt(s, 1) > Len(s) THEN NULL
    ELSE SubSeq(s, SpaceAt(s, 1) + 1, SpaceAt(s, SpaceAt(s, 1) + 1) - 1)

\* ownerNumber.includes(senderJid.split('@')[0])
\* the allow-list is not consulted
IsOwnerAnyone(senderJid) == TRUE

\* lines 762 and 773: ownerNumber.includes(senderJid.split('@')[0])
IsOwner(senderJid) == senderJid[1] \in ownerNumber

\* args[0]?.toLowerCase() === 'clear'
IsClear(s) == FirstArgOf(s) # NULL /\ toLowerCase(FirstArgOf(s)) = <<"clear">>

Refusal(command) == <<"Only owners can use the ", command, " command.">>

\* the switch on the command word: the reply it sends or the operation it awaits; a
\* word that is no command does nothing
EnterCommand(task) ==
    LET t1 == [task EXCEPT !.ran = @ \cup {"command"}]
        command == toLowerCase(CommandOf(task.messageText))
        owner == IsOwner(SenderOf(task.mek.key))
        send(text) == [t1 EXCEPT !.pc = "cmd_reply", !.reply = text]
    IN  CASE command = <<".", "ping">> -> send(<<"Pong! Response time">>)
          [] command = <<".", "runtime">> -> send(<<"Bot Runtime">>)
          [] command = <<".", "reload">> ->
                IF owner THEN [t1 EXCEPT !.pc = "cmd_reload_get"]
                ELSE send(Refusal(".reload"))
          [] command = <<".", "delete">> ->
                IF ~owner THEN send(Refusal(".delete"))
                ELSE IF IsClear(task.messageText) THEN [t1 EXCEPT !.pc = "clear_connect"]
                ELSE [t1 EXCEPT !.pc = "cmd_delete"]
          [] OTHER -> Finish(t1, FALSE)

\* line 740: if (messageText && messageText.startsWith('.')), else the handler ends
CommandCheck(task) ==
    IF Truthy(task.messageText) /\ startsWith(task.messageText, <<".">>)
    THEN EnterCommand(task)
    ELSE Finish(task, FALSE)

-----------------------------------------------------------------------------
(* Status save, lines 557-639 *)

PleaseMention == <<"*Please Mention status*">>

\* the checks of the quoted message up to the first await; a text message that is an
\* extendedTextMessage without contextInfo makes the property read throw
EnterStatus(task) ==
    LET t1 == [task EXCEPT !.ran = @ \cup {"status"}]
        raw == task.mek.message
        notice(text) == [t1 EXCEPT !.pc = "status_reply", !.reply = text]
    IN  IF raw.layers # <<>> \/ raw.leaf.type # "extendedTextMessage"
        THEN notice(PleaseMention)
        ELSE IF raw.leaf.contextInfo = NONE THEN Finish(t1, TRUE)
        ELSE IF raw.leaf.contextInfo.quotedMessage = NONE THEN notice(PleaseMention)
        ELSE IF raw.leaf.contextInfo.remoteJid # statusBroadcast
        THEN notice(<<"*Quoted message is not a status*">>)
        ELSE IF getContentType(raw.leaf.contextInfo.quotedMessage)
                   \in {"imageMessage", "videoMessage"}
        THEN [t1 EXCEPT !.pc = "status_download"]
        ELSE notice(<<"*Quoted status is not an image or video*">>)

\* the catch of the image and video branches: the failure is reported to the chat
StatusFailed(task) ==
    [task EXCEPT !.pc = "status_reply", !.reply = <<"Failed to save status">>]

-----------------------------------------------------------------------------
(* Response dispatch: where the handler suspends next *)

ResponseMediaTypes == {"image", "video", "voice"}

RECURSIVE EnterItem(_, _, _)
RECURSIVE Dispatch(_, _, _)

\* the switch on response.type of item i: the send or the media fetch it awaits; an
\* item of any other type does nothing and the loop goes on
Dispatch(task, i, now) ==
    LET r == task.response[i]
    IN  CASE r.type = "text" -> [task EXCEPT !.pc = "send", !.item = i]
          [] r.type \in ResponseMediaTypes -> [task EXCEPT !.pc = "fetch", !.item = i]
          [] OTHER -> EnterItem(task, i + 1, now)

\* the loop over rule.response without the timer of the delay
EnterItemNoDelay(task, i, now) ==
    IF i > Len(task.response) THEN CommandCheck(task) ELSE Dispatch(task, i, now)

\* the head of the loop over rule.response at item i, at time now: the timer of the
\* item's delay is started, or the item is dispatched; after the last item the break
\* leaves the rule loop for the command check
EnterItem(task, i, now) ==
    IF i > Len(task.response) THEN CommandCheck(task)
    ELSE IF task.response[i].delay # 0
         THEN [task EXCEPT !.pc = "delay", !.item = i, !.timerAt = now]
         ELSE Dispatch(task, i, now)

\* the message handed to conn.sendMessage for item i
ResponseContent(task) ==
    LET r == task.response[task.item]
        senderJid == SenderOf(task.mek.key)
        sub(x) == Substitute(x, PushNameOf(task.mek), <<senderJid[1]>>, task.senderDpUrl)
    IN  IF r.type = "text"
        THEN [kind |-> "text", body |-> sub(r.content), media |-> NULL]
        ELSE IF r.type = "voice"
        THEN [kind |-> "voice", body |-> EMPTY, media |-> sub(r.url)]
        ELSE [kind |-> r.type, body |-> OrEmpty(sub(r.caption)), media |-> sub(r.url)]

\* an entry of the log of completed sends
Sent(to, content, quoted, src) ==
    [to |-> to, content |-> content, quoted |-> quoted, src |-> src]

-----------------------------------------------------------------------------
(* messages.upsert handler.  config.AUTO_TYPING, AUTO_RECORDING,            *)
(* AUTO_STATUS_SEEN and AUTO_READ are unset, so the presence updates, the   *)
(* status read receipt and readMessages are not issued.                     *)

NoMessage == [layers |-> <<>>, leaf |-> NONE]

Remove(seq, t) == SubSeq(seq, 1, t - 1) \o SubSeq(seq, t + 1, Len(seq))

\* a handler that has returned is no longer among the handlers in flight
StartTask(task) == tasks' = IF task.kind = "done" THEN tasks ELSE Append(tasks, task)

Resume(t, task) ==
    tasks' = IF task.kind = "done" THEN Remove(tasks, t) ELSE [tasks EXCEPT ![t] = task]

\* an upsert handler goes on after the INSERT; the branches it has entered are noted
Proceed(t, next) ==
    /\ Resume(t, next)
    /\ paths' = paths \cup {[id |-> tasks[t].mek.key.id, path |-> p] : p \in next.ran}

\* the upsert handler leaves through the outer catch, lines 801-803
Caught(next) ==
    IF next.kind = "done" /\ next.caught THEN {"Message processing error"} ELSE {}

\* lines 438-516 up to the first await: if (!mek.message) return; unwrap; the text
\* kinds and the other kinds go on to the INSERT, the media kinds await the download
UpsertReceive(mek) ==
    /\ Deliver
    /\ IF mek.message = NoMessage
       THEN UNCHANGED tasks
       ELSE LET messageContent == Unwrap(mek.message)
                messageType == getContentType(messageContent)
            IN  CASE messageType = "conversation" ->
                       StartTask(UpsertTask(mek, "insert", messageContent,
                                            messageContent.leaf.text))
                  [] messageType = "extendedTextMessage" ->
                       StartTask(UpsertTask(mek, "insert", messageContent,
                                            messageContent.leaf.text))
                  [] messageType \in MediaTypes ->
                       StartTask(UpsertTask(mek, "download", messageContent, EMPTY))
                  [] OTHER ->
                       StartTask(UpsertTask(mek, "insert", messageContent,
                                            StringifyContent(messageType)))
    /\ UNCHANGED <<store, mediaCache, replyRules, clock, sent, console, paths>>

\* lines 484-501: the envelope text, mediaCache.set and the sweep over the cache
CacheMedia(t, buffer, imageUrl) ==
    LET task == tasks[t]
        leaf == task.messageContent.leaf
        entry == [type |-> task.messageType, buffer |-> buffer,
                  caption |-> OrEmpty(leaf.caption), mimetype |-> leaf.mimetype,
                  imageUrl |-> imageUrl, timestamp |-> clock]
    IN  /\ mediaCache' = Sweep(CacheSet(mediaCache, task.mek.key.id, entry), clock)
        /\ Resume(t, [task EXCEPT !.pc = "insert", !.buffer = buffer,
                                  !.imageUrl = imageUrl,
                                  !.messageText = EnvelopeOf(leaf)])

\* a failure of the download leaves the handler through the outer catch
DownloadFailedThrows(task) == Done(TRUE)

\* lines 503-513: the catch around the download, the upload and the cache write keeps
\* the envelope as text; the handler goes on to the INSERT
DownloadFailed(task) ==
    [task EXCEPT !.pc = "insert", !.messageText = EnvelopeOf(task.messageContent.leaf)]

\* lines 476-513: withRetry(downloadMediaMessage) settles.  A failure is caught: the
\* envelope text is kept and nothing is cached.  An image goes on to the upload.
DownloadDone(t) ==
    /\ At(t, "upsert", "download")
    /\ \E ok \in Outcomes :
        /\ quota' = Spend(ok)
        /\ Log(~ok, "Media caching error")
        /\ IF ~ok
           THEN /\ Resume(t, DownloadFailed(tasks[t]))
                /\ UNCHANGED mediaCache
           ELSE IF tasks[t].messageType = "imageMessage"
           THEN /\ Resume(t, [tasks[t] EXCEPT !.pc = "upload",
                                  !.buffer = <<"bytes", tasks[t].mek.key.id>>])
                /\ UNCHANGED mediaCache
           ELSE CacheMedia(t, <<"bytes", tasks[t].mek.key.id>>, NULL)
    /\ UNCHANGED <<store, replyRules, clock, sent, paths>>

\* lines 482-501: uploadToImgbb settles with the hosted url, or with null on any failure
UploadDone(t) ==
    /\ At(t, "upsert", "upload")
    /\ \E ok \in Outcomes :
        /\ quota' = Spend(ok)
        /\ Log(~ok, "imgbb upload error")
        /\ CacheMedia(t, tasks[t].buffer,
                      IF ok THEN <<"https://i.ibb.co/", tasks[t].mek.key.id>> ELSE NULL)
    /\ UNCHANGED <<store, replyRules, clock, sent, paths>>

\* the INSERT has failed and the handler goes on all the same
AfterInsertGoOn(task, ok) == [task EXCEPT !.pc = "dp"]

\* lines 537-540 and 550-551: the catch of the INSERT returns; after the INSERT the
\* handler awaits conn.profilePictureUrl
AfterInsert(task, ok) == IF ok THEN [task EXCEPT !.pc = "dp"] ELSE Done(FALSE)

\* lines 520-555: the INSERT settles.  A failure is logged and the handler returns;
\* otherwise the handler goes on to await conn.profilePictureUrl.
InsertDone(t) ==
    /\ At(t, "upsert", "insert")
    /\ \E ok \in Outcomes :
        /\ quota' = Spend(ok)
        /\ Log(~ok, "Database insert error")
        /\ IF ok
           THEN /\ store' = Insert(store,
                        NewRow(tasks[t].mek.key.id, SenderOf(tasks[t].mek.key),
                               tasks[t].mek.key.remoteJid, tasks[t].messageText,
                               tasks[t].messageType, tasks[t].imageUrl, FALSE))
                /\ Resume(t, AfterInsert(tasks[t], ok))
           ELSE /\ UNCHANGED store
                /\ Resume(t, AfterInsert(tasks[t], ok))
    /\ UNCHANGED <<mediaCache, replyRules, clock, sent, paths>>

\* the filter without the test of key.fromMe
EligibleFromMe(task) ==
    /\ Truthy(task.messageText)
    /\ ~startsWith(task.messageText, <<".">>)
    /\ SenderOf(task.mek.key) # restrictedNumber
    /\ task.mek.key.remoteJid # restrictedNumber

\* the filter without the test of the command prefix
EligibleWithCommands(task) ==
    /\ Truthy(task.messageText)
    /\ ~task.mek.key.fromMe
    /\ SenderOf(task.mek.key) # restrictedNumber
    /\ task.mek.key.remoteJid # restrictedNumber

\* lines 641-647
Eligible(task) ==
    /\ Truthy(task.messageText)
    /\ ~startsWith(task.messageText, <<".">>)
    /\ ~task.mek.key.fromMe
    /\ SenderOf(task.mek.key) # restrictedNumber
    /\ task.mek.key.remoteJid # restrictedNumber

\* the rules the loop evaluates for a text: all of them, or up to the first match
Evaluated(rules, messageText) ==
    LET r == RuleLoop(rules, 1, messageText)
    IN  IF r = 0 THEN 1..Len(rules) ELSE 1..r

\* lines 651-657: the catch around new RegExp logs each invalid pattern evaluated
InvalidPatternSeen(rules, messageText) ==
    \E j \in Evaluated(rules, messageText) :
        Truthy(rules[j].pattern) /\ ~RegExpCompiles(rules[j].pattern)

\* lines 641-737 up to the first await: the rule loop of an eligible message, with
\* the UPDATE of the first matching rule awaited; with no match the command check
EnterRules(task) ==
    LET t1 == [task EXCEPT !.ran = @ \cup {"rules"}]
        r == RuleLoop(replyRules.rules, 1, task.messageText)
    IN  IF ~replyRules.iterable THEN Finish(t1, TRUE)
        ELSE IF r # 0
        THEN [t1 EXCEPT !.pc = "mark", !.rule = r,
                        !.response = replyRules.rules[r].response]
        ELSE CommandCheck(t1)

\* lines 557-743 up to the first await: the status triggers, which return; else the
\* rule loop of an eligible message; else the command check
AfterProfile(task) ==
    IF Truthy(task.messageText) /\ task.messageText \in statusTriggers
    THEN EnterStatus(task)
    ELSE IF Eligible(task) THEN EnterRules(task)
    ELSE CommandCheck(task)

\* lines 551-743: profilePictureUrl settles (a failure keeps the default url); then
\* the status triggers, else the rule loop up to the UPDATE of the first matching
\* rule, else the command table
ProfileDone(t) ==
    /\ At(t, "upsert", "dp")
    /\ \E ok \in Outcomes :
        /\ quota' = Spend(ok)
        /\ LET task == [tasks[t] EXCEPT !.senderDpUrl =
                            IF ok THEN <<"https://pps/", SenderOf(tasks[t].mek.key)[1]>>
                            ELSE defaultDpUrl]
               next == AfterProfile(task)
               looped == /\ ~(Truthy(task.messageText) /\ task.messageText \in statusTriggers)
                         /\ Eligible(task) /\ replyRules.iterable
           IN  /\ Proceed(t, next)
               /\ console' = console \cup Caught(next) \cup
                     (IF looped /\ InvalidPatternSeen(replyRules.rules, task.messageText)
                      THEN {"Invalid regex pattern"} ELSE {})
    /\ UNCHANGED <<store, mediaCache, replyRules, clock, sent>>

\* a failure of the UPDATE is passed over and the loop over rule.response starts
AfterMarkGoOn(task, ok, now) ==
    EnterItem([task EXCEPT !.marks = @ + 1], 1, now)

\* lines 664-668 and 801-803: the UPDATE is awaited with no catch of its own, so a
\* failure leaves the handler through the outer catch; otherwise the loop over
\* rule.response starts
AfterMark(task, ok, now) ==
    IF ok THEN EnterItem([task EXCEPT !.marks = @ + 1], 1, now) ELSE Finish(task, TRUE)

\* lines 662-668: the UPDATE of auto_reply_sent settles; a failure leaves the handler
\* through the outer catch, otherwise the loop over rule.response starts
MarkDone(t) ==
    /\ At(t, "upsert", "mark")
    /\ \E ok \in Outcomes :
        /\ quota' = Spend(ok)
        /\ console' = console \cup Caught(AfterMark(tasks[t], ok, clock))
        /\ store' = IF ok THEN MarkAutoReplied(store, tasks[t].mek.key.id) ELSE store
        /\ Proceed(t, AfterMark(tasks[t], ok, clock))
    /\ UNCHANGED <<mediaCache, replyRules, clock, sent>>

\* lines 669-671: the timer of response.delay fires
DelayDone(t) ==
    /\ At(t, "upsert", "delay")
    /\ TimerFires(tasks[t].timerAt, tasks[t].response[tasks[t].item].delay)
    /\ Proceed(t, Dispatch(tasks[t], tasks[t].item, clock'))
    /\ UNCHANGED <<store, mediaCache, replyRules, sent, console, quota>>

\* a failure of fetchMedia leaves the handler through the outer catch
AfterFetchThrows(task, ok, now) ==
    IF ok THEN [task EXCEPT !.pc = "send"] ELSE Finish(task, TRUE)

\* lines 703-731: if (buffer) the send is awaited; with null the switch breaks and the
\* loop takes the next item
AfterFetch(task, ok, now) ==
    IF ok THEN [task EXCEPT !.pc = "send"] ELSE EnterItem(task, task.item + 1, now)

\* lines 703-731: fetchMedia settles; with null the item is skipped
FetchDone(t) ==
    /\ At(t, "upsert", "fetch")
    /\ \E ok \in Outcomes :
        /\ quota' = Spend(ok)
        /\ LET next == AfterFetch(tasks[t], ok, clock)
           IN  /\ Proceed(t, next)
               /\ console' = console \cup Caught(next)
                                \cup (IF ok THEN {} ELSE {"Media fetch error"})
    /\ UNCHANGED <<store, mediaCache, replyRules, clock, sent>>

\* lines 697-730: withRetry(conn.sendMessage) settles; a failure leaves the handler
\* through the outer catch
SendDone(t) ==
    /\ At(t, "upsert", "send")
    /\ \E ok \in Outcomes :
        /\ quota' = Spend(ok)
        /\ Log(~ok, "Message processing error")
        /\ IF ok
           THEN /\ sent' = Append(sent,
                        Sent(tasks[t].mek.key.remoteJid, ResponseContent(tasks[t]),
                             tasks[t].mek,
                             [by |-> "rule", rule |-> tasks[t].rule,
                              item |-> tasks[t].item, text |-> tasks[t].messageText]))
                /\ Proceed(t, EnterItem(tasks[t], tasks[t].item + 1, clock))
           ELSE /\ UNCHANGED sent
                /\ Proceed(t, Finish(tasks[t], TRUE))
    /\ UNCHANGED <<store, mediaCache, replyRules, clock>>

-----------------------------------------------------------------------------
(* The awaits of the status save and of the commands *)

\* a text sent to the conversation of the message, quoting it
Reply(task, by) ==
    Sent(task.mek.key.remoteJid, [kind |-> "text", body |-> task.reply, media |-> NULL],
         task.mek, [by |-> by, id |-> task.mek.key.id])

\* lines 559-562, 570-573, 599-601, 629-636: the send of a notice or of the report of
\* a failure settles, and the handler returns; a failure of this send leaves the
\* handler through the outer catch
StatusReplyDone(t) ==
    /\ At(t, "upsert", "status_reply")
    /\ \E ok \in Outcomes :
        /\ quota' = Spend(ok)
        /\ Log(~ok, "Message processing error")
        /\ sent' = IF ok THEN Append(sent, Reply(tasks[t], "status")) ELSE sent
        /\ Proceed(t, Finish(tasks[t], ~ok))
    /\ UNCHANGED <<store, mediaCache, replyRules, clock>>

\* lines 580-587 and 606-613: the download of the quoted status settles
StatusDownloadDone(t) ==
    /\ At(t, "upsert", "status_download")
    /\ \E ok \in Outcomes :
        /\ quota' = Spend(ok)
        /\ Log(~ok, "Status save error")
        /\ Proceed(t, IF ok THEN [tasks[t] EXCEPT !.pc = "status_write"]
                      ELSE StatusFailed(tasks[t]))
    /\ UNCHANGED <<store, mediaCache, replyRules, clock, sent>>

\* lines 588-590 and 614-616: fs.writeFile of the temporary file settles
StatusWriteDone(t) ==
    /\ At(t, "upsert", "status_write")
    /\ \E ok \in Outcomes :
        /\ quota' = Spend(ok)
        /\ Log(~ok, "Status save error")
        /\ Proceed(t, IF ok THEN [tasks[t] EXCEPT !.pc = "status_send"]
                      ELSE StatusFailed(tasks[t]))
    /\ UNCHANGED <<store, mediaCache, replyRules, clock, sent>>

\* lines 591-595 and 617-625: the send of the saved status settles
StatusSendDone(t) ==
    /\ At(t, "upsert", "status_send")
    /\ \E ok \in Outcomes :
        /\ quota' = Spend(ok)
        /\ Log(~ok, "Status save error")
        /\ LET quoted == tasks[t].mek.message.leaf.contextInfo.quotedMessage
           IN  sent' = IF ok
                       THEN Append(sent,
                              Sent(tasks[t].mek.key.remoteJid,
                                   [kind |-> getContentType(quoted),
                                    body |-> OrEmpty(quoted.leaf.caption),
                                    media |-> <<"bytes", "status">>],
                                   tasks[t].mek,
                                   [by |-> "status", id |-> tasks[t].mek.key.id]))
                       ELSE sent
        /\ Proceed(t, IF ok THEN [tasks[t] EXCEPT !.pc = "status_unlink"]
                      ELSE StatusFailed(tasks[t]))
    /\ UNCHANGED <<store, mediaCache, replyRules, clock>>

\* lines 596 and 626: fs.unlink settles, its failure is only logged; return
StatusUnlinkDone(t) ==
    /\ At(t, "upsert", "status_unlink")
    /\ \E ok \in Outcomes :
        /\ quota' = Spend(ok)
        /\ Log(~ok, "File deletion error")
        /\ Proceed(t, Finish(tasks[t], FALSE))
    /\ UNCHANGED <<store, mediaCache, replyRules, clock, sent>>

\* the send of the reply of a command settles
CmdReplyDone(t) ==
    /\ At(t, "upsert", "cmd_reply")
    /\ \E ok \in Outcomes :
        /\ quota' = Spend(ok)
        /\ Log(~ok, "Message processing error")
        /\ sent' = IF ok THEN Append(sent, Reply(tasks[t], "command")) ELSE sent
        /\ Proceed(t, Finish(tasks[t], ~ok))
    /\ UNCHANGED <<store, mediaCache, replyRules, clock>>

ReloadFailed(task) ==
    [task EXCEPT !.pc = "cmd_reply", !.reply = <<"Failed to reload reply.json">>]

\* reloadJsonFile, line 168: axios.get of the rule document settles with the document
CmdReloadGetDone(t, doc) ==
    /\ At(t, "upsert", "cmd_reload_get")
    /\ \E ok \in Outcomes :
        /\ quota' = Spend(ok)
        /\ Log(~ok, "Error reloading reply.json")
        /\ Proceed(t, IF ok THEN [tasks[t] EXCEPT !.pc = "cmd_reload_write", !.doc = doc]
                      ELSE ReloadFailed(tasks[t]))
    /\ UNCHANGED <<store, mediaCache, replyRules, clock, sent>>

\* reloadJsonFile, line 171: fs.writeFile of reply.json settles
CmdReloadWriteDone(t) ==
    /\ At(t, "upsert", "cmd_reload_write")
    /\ \E ok \in Outcomes :
        /\ quota' = Spend(ok)
        /\ Log(~ok, "Error reloading reply.json")
        /\ Proceed(t, IF ok THEN [tasks[t] EXCEPT !.pc = "cmd_reload_load"]
                      ELSE ReloadFailed(tasks[t]))
    /\ UNCHANGED <<store, mediaCache, replyRules, clock, sent>>

\* loadJsonFile, lines 151-159, and lines 172-174: the file is read and parsed into
\* replyRules; a failure is logged by loadJsonFile itself and reloadJsonFile reports
\* success all the same
CmdReloadLoadDone(t) ==
    /\ At(t, "upsert", "cmd_reload_load")
    /\ \E ok \in Outcomes :
        /\ quota' = Spend(ok)
        /\ Log(~ok, "Error loading reply.json")
        /\ replyRules' = IF ok THEN tasks[t].doc ELSE replyRules
        /\ Proceed(t, [tasks[t] EXCEPT !.pc = "cmd_reply",
                                       !.reply = <<"reply.json reloaded successfully">>])
    /\ UNCHANGED <<store, mediaCache, clock, sent>>

\* the rows of handleDelete(false): deleted, with a hosted image
DeletedWithImages(rows) ==
    SelectSeq(rows, LAMBDA row : row.is_deleted /\ row.image_url # NULL)

RECURSIVE ListIds(_)
ListIds(rows) ==
    IF rows = <<>> THEN <<>> ELSE <<"ID: ", Head(rows).message_id>> \o ListIds(Tail(rows))

\* handleDelete has failed: the catch of lines 328-331 logs and returns { error }, and
\* the handler replies with the failure, lines 788-792
DeleteFailed(task) ==
    [task EXCEPT !.pc = "cmd_reply", !.reply = <<"Failed to process delete operation">>]

\* the rows other connections see after the DELETE of the open transaction:
\* the statement has taken effect at once
AfterDeleteAutocommit(rows, n) == SubSeq(rows, n + 1, Len(rows))

\* lines 307-308: BEGIN and DELETE FROM messages are sent on the one client taken from
\* the pool, so the DELETE is inside the transaction: the rows other connections see
\* are unchanged until the COMMIT
AfterDelete(rows, n) == rows

\* line 309: COMMIT removes the n rows the DELETE has found; rows inserted since stay
AfterCommit(rows, n) == SubSeq(rows, n + 1, Len(rows))

\* line 305: pool.connect settles; a failure is caught by the catch of handleDelete
ClearConnectDone(t) ==
    /\ At(t, "upsert", "clear_connect")
    /\ \E ok \in Outcomes :
        /\ quota' = Spend(ok)
        /\ Log(~ok, "Delete operation error")
        /\ Proceed(t, IF ok THEN [tasks[t] EXCEPT !.pc = "clear_begin"]
                      ELSE DeleteFailed(tasks[t]))
    /\ UNCHANGED <<store, mediaCache, replyRules, clock, sent>>

\* line 307: BEGIN settles; a failure goes to the ROLLBACK of line 313
ClearBeginDone(t) ==
    /\ At(t, "upsert", "clear_begin")
    /\ \E ok \in Outcomes :
        /\ quota' = Spend(ok)
        /\ Proceed(t, [tasks[t] EXCEPT !.pc = IF ok THEN "clear_delete"
                                              ELSE "clear_rollback"])
    /\ UNCHANGED <<store, mediaCache, replyRules, clock, sent, console>>

\* line 308: DELETE FROM messages settles, having found the rows present; it waits
\* while another open transaction has deleted rows
ClearDeleteDone(t) ==
    /\ At(t, "upsert", "clear_delete")
    /\ \A u \in DOMAIN tasks :
         (tasks[u].kind = "upsert" /\ tasks[u].pc = "clear_commit") => tasks[u].txnRows = 0
    /\ \E ok \in Outcomes :
        /\ quota' = Spend(ok)
        /\ store' = IF ok THEN AfterDelete(store, Len(store)) ELSE store
        /\ Proceed(t, IF ok THEN [tasks[t] EXCEPT !.pc = "clear_commit",
                                                  !.txnRows = Len(store)]
                      ELSE [tasks[t] EXCEPT !.pc = "clear_rollback"])
    /\ UNCHANGED <<mediaCache, replyRules, clock, sent, console>>

\* lines 309-311: COMMIT settles: the rows are removed, the success is logged and the
\* handler replies, lines 776-779; a failure goes to the ROLLBACK
ClearCommitDone(t) ==
    /\ At(t, "upsert", "clear_commit")
    /\ \E ok \in Outcomes :
        /\ quota' = Spend(ok)
        /\ Log(ok, "Database cleared successfully")
        /\ store' = IF ok THEN AfterCommit(store, tasks[t].txnRows) ELSE store
        /\ Proceed(t, IF ok
                      THEN [tasks[t] EXCEPT !.pc = "cmd_reply",
                                            !.reply = <<"Database cleared successfully">>]
                      ELSE [tasks[t] EXCEPT !.pc = "clear_rollback"])
    /\ UNCHANGED <<mediaCache, replyRules, clock, sent>>

\* lines 312-317 and 328-331: ROLLBACK settles and the error is thrown again, or the
\* ROLLBACK throws itself; the client is released and the catch of handleDelete logs
ClearRollbackDone(t) ==
    /\ At(t, "upsert", "clear_rollback")
    /\ \E ok \in Outcomes :
        /\ quota' = Spend(ok)
        /\ console' = console \cup {"Delete operation error"}
        /\ Proceed(t, DeleteFailed(tasks[t]))
    /\ UNCHANGED <<store, mediaCache, replyRules, clock, sent>>

\* lines 319-327 and 780-793: the SELECT of handleDelete(false) settles with the
\* deleted rows with images; the reply lists them or tells the failure
CmdDeleteDone(t) ==
    /\ At(t, "upsert", "cmd_delete")
    /\ \E ok \in Outcomes :
        /\ quota' = Spend(ok)
        /\ Log(~ok, "Delete operation error")
        /\ LET found == DeletedWithImages(store)
               reply == IF ~ok THEN <<"Failed to process delete operation">>
                        ELSE IF found # <<>> THEN <<"Found deleted messages with images">>
                                                  \o ListIds(found)
                        ELSE <<"No deleted messages with images found.">>
           IN  Proceed(t, [tasks[t] EXCEPT !.pc = "cmd_reply", !.reply = reply])
    /\ UNCHANGED <<store, mediaCache, replyRules, clock, sent>>

-----------------------------------------------------------------------------
(* messages.update handler and handleDeletedMessage *)

\* JSON.parse(message_text).caption for the envelope written by StringifyEnvelope
ParseCaption(message_text) ==
    LET sep == indexOf(message_text, <<"\",\"mimetype\":\"">>)
    IN  SubSeq(message_text, 2, sep - 1)

\* lines 807-811 from the head of the remaining updates: the updates whose message is
\* not null are passed over; the handler ends when none is left
RECURSIVE NextDeletion(_, _)
NextDeletion(updates, caught) ==
    IF updates = <<>> THEN Done(caught)
    ELSE IF Head(updates).message = NULL
         THEN [UpdateTask(updates, "del_update") EXCEPT !.caught = caught]
         ELSE NextDeletion(Tail(updates), caught)

\* the messages.update handler is called with a batch of updates
UpdateReceive(updates) ==
    /\ Deliver
    /\ StartTask(NextDeletion(updates, FALSE))
    /\ UNCHANGED <<store, mediaCache, replyRules, clock, sent, console, paths>>

\* the key of the update handleDeletedMessage is working on
KeyOf(task) == Head(task.updates).key

\* a failure leaves handleDeletedMessage and ends the loop over the updates
ReturnAbort(t, caught) ==
    Resume(t, IF caught THEN Done(TRUE)
              ELSE NextDeletion(Tail(tasks[t].updates), tasks[t].caught))

\* handleDeletedMessage returns (caught: through its catch); the loop takes the next update
Return(t, caught) ==
    Resume(t, NextDeletion(Tail(tasks[t].updates), tasks[t].caught \/ caught))

\* lines 856-861: the UPDATE marking the rows of the id settles
DelUpdateDone(t) ==
    /\ At(t, "update", "del_update")
    /\ \E ok \in Outcomes :
        /\ quota' = Spend(ok)
        /\ Log(~ok, "Deleted message handler error")
        /\ IF ok
           THEN /\ store' = MarkDeleted(store, DeleterOf(KeyOf(tasks[t])),
                                        KeyOf(tasks[t]).id, clock)
                /\ Resume(t, [tasks[t] EXCEPT !.pc = "del_select"])
           ELSE /\ UNCHANGED store
                /\ Return(t, TRUE)
    /\ UNCHANGED <<mediaCache, replyRules, clock, sent, paths>>

\* lines 873-911: the message sent first to the deleter
RecoveredContent(originalMessage, cachedMedia) ==
    IF cachedMedia # NONE /\ originalMessage.message_type \in MediaTypes
    THEN IF originalMessage.message_type = "imageMessage" /\ Truthy(originalMessage.image_url)
         THEN [kind |-> "image", body |-> OrEmpty(cachedMedia.caption),
               media |-> originalMessage.image_url]
         ELSE [kind |-> originalMessage.message_type, body |-> OrEmpty(cachedMedia.caption),
               media |-> cachedMedia.buffer]
    ELSE IF originalMessage.message_type \in MediaTypes
         THEN [kind |-> "text",
               body |-> <<"[Media Message Deleted] Type: ", originalMessage.message_type,
                          ", Caption: ">>
                        \o (IF Truthy(ParseCaption(originalMessage.message_text))
                            THEN ParseCaption(originalMessage.message_text)
                            ELSE <<"No caption">>),
               media |-> NULL]
         ELSE [kind |-> "text", body |-> originalMessage.message_text, media |-> NULL]

\* lines 893-903 and 913-922: the alert sent second
AlertContent(originalMessage, cachedMedia, deleterJid) ==
    [kind |-> "text",
     body |-> <<"Original Sender: ">> \o originalMessage.sender_jid
              \o <<"Deleted By: ">> \o deleterJid
              \o (IF cachedMedia # NONE /\ originalMessage.message_type \in MediaTypes
                  THEN <<"Caption: ">> \o (IF Truthy(cachedMedia.caption)
                                           THEN cachedMedia.caption ELSE <<"No caption">>)
                  ELSE <<>>),
     media |-> NULL]

\* lines 863-891: the SELECT settles; with no row the call returns, otherwise rows[0]
\* (any of the rows of the id) and the cache entry are read and the first send is issued
DelSelectDone(t) ==
    /\ At(t, "update", "del_select")
    /\ \E ok \in Outcomes :
        /\ quota' = Spend(ok)
        /\ Log(~ok, "Deleted message handler error")
        /\ IF ~ok
           THEN Return(t, TRUE)
           ELSE IF SelectById(store, KeyOf(tasks[t]).id) = {}
           THEN Return(t, FALSE)
           ELSE \E row \in SelectById(store, KeyOf(tasks[t]).id) :
                    Resume(t, [tasks[t] EXCEPT !.pc = "del_send",
                                  !.originalMessage = row,
                                  !.cachedMedia = CacheGet(mediaCache, KeyOf(tasks[t]).id)])
    /\ UNCHANGED <<store, mediaCache, replyRules, clock, sent, paths>>

\* lines 891 and 909: the send of the recovered content settles
DelSendDone(t) ==
    /\ At(t, "update", "del_send")
    /\ \E ok \in Outcomes :
        /\ quota' = Spend(ok)
        /\ Log(~ok, "Deleted message handler error")
        /\ IF ok
           THEN /\ sent' = Append(sent,
                        Sent(DeleterOf(KeyOf(tasks[t])),
                             RecoveredContent(tasks[t].originalMessage, tasks[t].cachedMedia),
                             NONE, [by |-> "recovery", id |-> KeyOf(tasks[t]).id]))
                /\ Resume(t, [tasks[t] EXCEPT !.pc = "del_alert"])
           ELSE /\ UNCHANGED sent
                /\ Return(t, TRUE)
    /\ UNCHANGED <<store, mediaCache, replyRules, clock, paths>>

\* lines 900 and 919: the send of the alert settles
DelAlertDone(t) ==
    /\ At(t, "update", "del_alert")
    /\ \E ok \in Outcomes :
        /\ quota' = Spend(ok)
        /\ Log(~ok, "Deleted message handler error")
        /\ IF ok
           THEN /\ sent' = Append(sent,
                        Sent(DeleterOf(KeyOf(tasks[t])),
                             AlertContent(tasks[t].originalMessage, tasks[t].cachedMedia,
                                          DeleterOf(KeyOf(tasks[t]))),
                             NONE, [by |-> "alert", id |-> KeyOf(tasks[t]).id]))
                /\ Return(t, FALSE)
           ELSE /\ UNCHANGED sent
                /\ Return(t, TRUE)
    /\ UNCHANGED <<store, mediaCache, replyRules, clock, paths>>

-----------------------------------------------------------------------------
(* Bulk clear and the clock *)

\* handleDelete(true): BEGIN, DELETE FROM messages, COMMIT in one transaction; on a
\* failure ROLLBACK leaves the rows as they were
HandleDeleteClear ==
    /\ Deliver
    /\ \E ok \in {TRUE, FALSE} :
        /\ store' = IF ok THEN ClearedRows(store) ELSE store
        /\ Log(~ok, "Delete operation error")
    /\ UNCHANGED <<mediaCache, replyRules, clock, tasks, sent, paths>>

\* time passes: a step of the clock is as long as the TTL, or one millisecond longer
Tick ==
    /\ Deliver
    /\ \E d \in {TTL, TTL + 1} : clock' = clock + d
    /\ UNCHANGED <<store, mediaCache, replyRules, tasks, sent, console, paths>>

-----------------------------------------------------------------------------
(* withRetry(operation, maxRetries, delay).  A call in flight is a handler   *)
(* of kind "retry"; the operation is the environment's: each invocation      *)
(* settles with a value or rejects with an Error carrying a message.  The    *)
(* call keeps a record of its invocations, of the failures it caught and of  *)
(* the timers it started.                                                    *)

\* delay = 1000
DefaultDelay == 1000

\* maxRetries = config.MAX_RETRIES || 3; an unset MAX_RETRIES is 0 here
DefaultMaxRetries(configMax) == IF configMax # 0 THEN configMax ELSE 3

SocketHangUp == <<"socket hang up">>

\* for (...; attempt < maxRetries; ...)
LoopCondStrict(attempt, maxRetries) == attempt < maxRetries

\* for (...; attempt <= maxRetries; ...)
LoopCond(attempt, maxRetries) == attempt <= maxRetries

\* retry whatever the failure is
ShouldRetryAny(err, attempt, maxRetries) == attempt < maxRetries

\* retry a socket hang up also after the last attempt
ShouldRetryPastLast(err, attempt, maxRetries) == includes(err.message, SocketHangUp)

\* err.message.includes('socket hang up') && attempt < maxRetries
ShouldRetry(err, attempt, maxRetries) ==
    includes(err.message, SocketHangUp) /\ attempt < maxRetries

RetryTask(maxRetries, delay) ==
    [kind |-> "retry", pc |-> "await", attempt |-> 1, maxRetries |-> maxRetries,
     delay |-> delay, invoked |-> <<>>, failures |-> <<>>, sleeps |-> <<>>,
     result |-> NONE]

\* the head of the for loop: the operation is invoked and awaited, or the loop is
\* over and the function ends with undefined
LoopHead(task, now) ==
    IF LoopCond(task.attempt, task.maxRetries)
    THEN [task EXCEPT !.pc = "await", !.invoked = Append(@, now)]
    ELSE [task EXCEPT !.pc = "returned", !.result = NONE]

\* withRetry is called and runs up to its first await
WithRetryCall(maxRetries, delay) ==
    /\ Deliver
    /\ tasks = <<>>
    /\ tasks' = <<LoopHead(RetryTask(maxRetries, delay), clock)>>
    /\ UNCHANGED <<store, mediaCache, replyRules, clock, sent, console, paths>>

\* lines 25-32: the awaited operation settles.  Its value is returned; a failure is
\* caught, and either the timer of the delay is started or the failure is thrown.
WithRetryAttempt(t, outcome) ==
    /\ At(t, "retry", "await")
    /\ IF outcome.ok
       THEN /\ tasks' = [tasks EXCEPT ![t].pc = "returned", ![t].result = outcome]
            /\ UNCHANGED console
       ELSE IF ShouldRetry(outcome, tasks[t].attempt, tasks[t].maxRetries)
       THEN /\ tasks' = [tasks EXCEPT ![t].pc = "sleep",
                                      ![t].failures = Append(@, outcome),
                                      ![t].sleeps = Append(@, [at |-> clock,
                                                               ms |-> tasks[t].delay])]
            /\ console' = console \cup {"Retrying"}
       ELSE /\ tasks' = [tasks EXCEPT ![t].pc = "thrown",
                                      ![t].failures = Append(@, outcome),
                                      ![t].result = outcome]
            /\ UNCHANGED console
    /\ UNCHANGED <<store, mediaCache, replyRules, clock, sent, quota, paths>>

\* lines 29-30: the timer fires, not before the delay has passed; continue
WithRetryDelay(t) ==
    /\ At(t, "retry", "sleep")
    /\ TimerFires(tasks[t].sleeps[Len(tasks[t].sleeps)].at, tasks[t].delay)
    /\ tasks' = [tasks EXCEPT ![t] = LoopHead([tasks[t] EXCEPT !.attempt = @ + 1], clock')]
    /\ UNCHANGED <<store, mediaCache, replyRules, sent, console, quota, paths>>

\* the caller takes the value or the failure
WithRetryReturn(t) ==
    /\ t \in DOMAIN tasks /\ tasks[t].kind = "retry"
    /\ tasks[t].pc \in {"returned", "thrown"}
    /\ tasks' = Remove(tasks, t)
    /\ UNCHANGED <<store, mediaCache, replyRules, clock, sent, console, quota, paths>>

-----------------------------------------------------------------------------
(* The environment of the pipeline specification *)

Ids == {"M1", "M2"}

U1 == <<"111", "s.whatsapp.net">>
G1 == <<"g1", "g.us">>
P1 == <<"222", "s.whatsapp.net">>

TextLeaf(text) ==
    [type |-> "conversation", text |-> text, caption |-> NULL, mimetype |-> NULL]

MediaLeaf(type, caption, mimetype) ==
    [type |-> type, text |-> NULL, caption |-> caption, mimetype |-> mimetype]

Mek(id, remoteJid, participant, fromMe, layers, leaf) ==
    [key |-> [remoteJid |-> remoteJid, id |-> id, participant |-> participant,
              fromMe |-> fromMe],
     message |-> [layers |-> layers, leaf |-> leaf], pushName |-> <<"A","l">>]

Update(id, remoteJid, participant, message) ==
    [key |-> [remoteJid |-> remoteJid, id |-> id, participant |-> participant],
     message |-> message]

TextItem(content, delay) ==
    [type |-> "text", content |-> content, caption |-> NULL, url |-> NULL, delay |-> delay]

MediaItem(type, caption, url, delay) ==
    [type |-> type, content |-> NULL, caption |-> caption, url |-> url, delay |-> delay]

Rule(pattern, trigger, response) ==
    [pattern |-> pattern, trigger |-> trigger, response |-> response]

\* a text message "Hi" with id M1, or an image captioned "c" with id M1 or M2, in a
\* direct chat
PipelineMeks ==
    { Mek("M1", U1, NULL, FALSE, <<>>, TextLeaf(<<"H","i">>)),
      Mek("M1", U1, NULL, FALSE, <<>>, MediaLeaf("imageMessage", <<"c">>, <<"image/jpeg">>)),
      Mek("M2", U1, NULL, FALSE, <<>>, MediaLeaf("imageMessage", <<"c">>, <<"image/jpeg">>)) }

\* one update per batch: a removal of M1 in a direct chat or of M2 in a group, or an edit
PipelineUpdates ==
    { <<Update("M1", U1, NULL, NULL)>>,
      <<Update("M2", G1, P1, NULL)>>,
      <<Update("M1", U1, NULL, <<"edited">>)>> }

\* reply.json: one rule answering "hi" with a text
PipelineRules ==
    [iterable |-> TRUE,
     rules |-> << Rule(NULL, <<"h","i">>, << TextItem(<<"y","o">>, 0) >>) >>]

Init ==
    /\ store = <<>>
    /\ mediaCache = <<>>
    /\ replyRules = PipelineRules
    /\ clock = 0
    /\ tasks = <<>>
    /\ sent = <<>>
    /\ console = {}
    /\ paths = {}
    /\ quota = [events |-> MaxEvents, faulty |-> TRUE]

Next ==
    \/ \E mek \in PipelineMeks : UpsertReceive(mek)
    \/ \E updates \in PipelineUpdates : UpdateReceive(updates)
    \/ \E t \in DOMAIN tasks : DownloadDone(t)
    \/ \E t \in DOMAIN tasks : UploadDone(t)
    \/ \E t \in DOMAIN tasks : InsertDone(t)
    \/ \E t \in DOMAIN tasks : ProfileDone(t)
    \/ \E t \in DOMAIN tasks : MarkDone(t)
    \/ \E t \in DOMAIN tasks : SendDone(t)
    \/ \E t \in DOMAIN tasks : DelUpdateDone(t)
    \/ \E t \in DOMAIN tasks : DelSelectDone(t)
    \/ \E t \in DOMAIN tasks : DelSendDone(t)
    \/ \E t \in DOMAIN tasks : DelAlertDone(t)
    \/ HandleDeleteClear
    \/ Tick

Spec == Init /\ [][Next]_vars

-----------------------------------------------------------------------------
(* The environment of the rule matching specification: one text message at  *)
(* a time, no failures, and every rule list over five rules                 *)

MaxRules == 3
MaxRuleEvents == 1

Me == <<"m","e">>

\* a plain trigger; answers with a text and, after a delay, an image
RuleA == Rule(NULL, Me, << TextItem(<<"a">>, 0),
                           MediaItem("image", <<"p">>, <<"https://x/p.jpg">>, 500) >>)
\* a pattern that compiles, /^hi/i, beside the trigger
RuleB == Rule(<<"^","h","i">>, Me, << TextItem(<<"b">>, 0) >>)
\* a pattern that does not compile, beside the trigger
RuleC == Rule(<<"(">>, Me, << TextItem(<<"c">>, 0) >>)
\* a pattern that does not compile and no trigger
RuleD == Rule(<<"(">>, NULL, << TextItem(<<"d">>, 0) >>)
\* a pattern that does not compile and an empty trigger
RuleE == Rule(<<"(">>, EMPTY, << TextItem(<<"e">>, 0) >>)

RuleSet == {RuleA, RuleB, RuleC, RuleD, RuleE}

RuleLists == UNION {[1..n -> RuleSet] : n \in 1..MaxRules}

\* "Me", "hiME" and "x"
RuleTexts == { <<"M","e">>, <<"h","i","M","E">>, <<"x">> }

RuleMeks == {Mek("M1", U1, NULL, FALSE, <<>>, TextLeaf(text)) : text \in RuleTexts}

InitRules ==
    /\ store = <<>>
    /\ mediaCache = <<>>
    /\ replyRules \in {[iterable |-> TRUE, rules |-> rules] : rules \in RuleLists}
    /\ clock = 0
    /\ tasks = <<>>
    /\ sent = <<>>
    /\ console = {}
    /\ paths = {}
    /\ quota = [events |-> MaxRuleEvents, faulty |-> FALSE]

NextRules ==
    \/ \E mek \in RuleMeks : UpsertReceive(mek)
    \/ \E t \in DOMAIN tasks : InsertDone(t)
    \/ \E t \in DOMAIN tasks : ProfileDone(t)
    \/ \E t \in DOMAIN tasks : MarkDone(t)
    \/ \E t \in DOMAIN tasks : DelayDone(t)
    \/ \E t \in DOMAIN tasks : FetchDone(t)
    \/ \E t \in DOMAIN tasks : SendDone(t)

SpecRules == InitRules /\ [][NextRules]_vars

-----------------------------------------------------------------------------
(* Properties of rule matching, checked under SpecRules *)

\* the handlers that have selected a rule, and the rule responses sent so far
Selecting == {t \in DOMAIN tasks : tasks[t].kind = "upsert" /\ tasks[t].rule # 0}
RuleSends == {i \in DOMAIN sent : sent[i].src.by = "rule"}

\* the step taken is a step of handler t
StepOf(t) ==
    /\ t \in DOMAIN tasks
    /\ \/ tasks' = Remove(tasks, t)
       \/ Len(tasks') = Len(tasks) /\ tasks'[t] # tasks[t]

\* handler t returns in the step taken
Returns(t) == t \in DOMAIN tasks /\ tasks' = Remove(tasks, t)

HasPattern(rule) == rule.pattern # NULL /\ rule.pattern # <<>>
HasTrigger(rule) == rule.trigger # NULL /\ rule.trigger # <<>>
TriggerContained(rule, text) ==
    /\ HasTrigger(rule)
    /\ \E i \in 1..(Len(text) - Len(rule.trigger) + 1) :
          toLowerCase(SubSeq(text, i, i + Len(rule.trigger) - 1)) = toLowerCase(rule.trigger)

\* r is the first rule of the list that matches the text
FirstMatching(rules, text, r) ==
    /\ r \in 1..Len(rules)
    /\ IsMatch(rules[r], text)
    /\ \A j \in 1..(r - 1) : ~IsMatch(rules[j], text)

\* C1: the rule whose responses a handler dispatches is the first rule of the list
\* that matches the text of its message, every response sent quotes a message whose
\* first matching rule it belongs to, and the handler has run the UPDATE of
\* auto_reply_sent exactly once when it dispatches (and not yet before)
C1_FirstRuleOnly ==
    /\ \A t \in Selecting :
          /\ FirstMatching(replyRules.rules, tasks[t].messageText, tasks[t].rule)
          /\ tasks[t].response = replyRules.rules[tasks[t].rule].response
          /\ tasks[t].marks = IF tasks[t].pc = "mark" THEN 0 ELSE 1
    /\ \A i \in RuleSends :
          /\ FirstMatching(replyRules.rules, sent[i].src.text, sent[i].src.rule)
          /\ sent[i].src.item \in DOMAIN replyRules.rules[sent[i].src.rule].response
          /\ sent[i].quoted.message.leaf.text = sent[i].src.text

\* a response was sent for a text that a later rule of the list matches as well
C1_Witness ==
    \E i \in RuleSends :
        \E j \in (sent[i].src.rule + 1)..Len(replyRules.rules) :
            IsMatch(replyRules.rules[j], sent[i].src.text)

\* C2: a selected rule that has a pattern which compiles is matched by its pattern;
\* a rule is selected on its trigger only if it has no pattern or the pattern does
\* not compile
C2_PatternAuthoritative ==
    /\ \A t \in Selecting :
          LET rule == replyRules.rules[tasks[t].rule]
          IN  IF HasPattern(rule) /\ RegExpCompiles(rule.pattern)
              THEN RegExpTest(rule.pattern, tasks[t].messageText)
              ELSE TriggerContained(rule, tasks[t].messageText)
    /\ \A i \in RuleSends :
          LET rule == replyRules.rules[sent[i].src.rule]
          IN  IF HasPattern(rule) /\ RegExpCompiles(rule.pattern)
              THEN RegExpTest(rule.pattern, sent[i].src.text)
              ELSE TriggerContained(rule, sent[i].src.text)

\* a later rule was selected after a rule whose pattern compiles and does not match
\* although its trigger is contained in the text
C2_Witness ==
    \E t \in Selecting :
        \E j \in 1..(tasks[t].rule - 1) :
            LET rule == replyRules.rules[j]
            IN  /\ HasPattern(rule) /\ RegExpCompiles(rule.pattern)
                /\ ~RegExpTest(rule.pattern, tasks[t].messageText)
                /\ TriggerContained(rule, tasks[t].messageText)

InvalidPattern(rule) == HasPattern(rule) /\ ~RegExpCompiles(rule.pattern)

\* C3: a rule with a pattern that does not compile is selected iff its trigger is
\* contained in the text: among the rules up to the selected one, such a rule is the
\* selected one exactly if its trigger is contained; a handler that returns from the
\* rule loop with no rule selected had no such rule with its trigger contained; and
\* the rule loop never leaves through the outer catch
C3_InvalidPatternFallsBack ==
    [][ /\ \A t \in DOMAIN tasks' :
              (tasks'[t].kind = "upsert" /\ tasks'[t].rule # 0) =>
                 \A j \in 1..tasks'[t].rule :
                    InvalidPattern(replyRules'.rules[j]) =>
                       ((j = tasks'[t].rule) <=>
                           TriggerContained(replyRules'.rules[j], tasks'[t].messageText))
        /\ \A t \in DOMAIN tasks :
              (At(t, "upsert", "dp") /\ Returns(t)) =>
                 \A j \in 1..Len(replyRules.rules) :
                    InvalidPattern(replyRules.rules[j]) =>
                       ~TriggerContained(replyRules.rules[j], tasks[t].messageText)
        /\ "Message processing error" \notin console'
      ]_vars

\* a rule with a pattern that does not compile was selected on its trigger, or was
\* passed over for a later rule, and the failure to compile was logged
C3_Witness ==
    /\ "Invalid regex pattern" \in console
    /\ \E t \in Selecting : InvalidPattern(replyRules.rules[tasks[t].rule])
    /\ \E t \in Selecting :
          \E j \in 1..(tasks[t].rule - 1) :
             InvalidPattern(replyRules.rules[j]) /\ ~HasTrigger(replyRules.rules[j])

-----------------------------------------------------------------------------
(* Properties of the store and of the media cache, checked under Spec *)

RowsOf(rows, id) == {i \in 1..Len(rows) : rows[i].message_id = id}

\* C4: the store holds at most one row per message id
C4_OneRowPerMessageId ==
    \A i, j \in 1..Len(store) : store[i].message_id = store[j].message_id => i = j

\* C5: every row with is_deleted set has deleted_at and deleted_by set
C5_DeletedHasAtAndBy ==
    \A i \in 1..Len(store) :
        store[i].is_deleted => store[i].deleted_at # NULL /\ store[i].deleted_by # NULL

\* a row was marked deleted
C5_Witness == \E i \in 1..Len(store) : store[i].is_deleted

\* handler t is in handleDeletedMessage at pc and its UPDATE or SELECT settles in the
\* step taken without a failure
DeletionStep(t, pc) == At(t, "update", pc) /\ StepOf(t) /\ quota' = quota

\* C6: when the UPDATE of a deletion notification settles, reading the rows of its id
\* gives is_deleted, a deleted_at and, as deleted_by, the participant of the update's
\* key if it has one and its conversation otherwise; no row of the id is lost
C6_MarkDeletedThenRead ==
    [][ \A t \in DOMAIN tasks :
           DeletionStep(t, "del_update") =>
              LET key == Head(tasks[t].updates).key
              IN  /\ Len(store') = Len(store)
                  /\ RowsOf(store', key.id) = RowsOf(store, key.id)
                  /\ \A i \in RowsOf(store', key.id) :
                        /\ store'[i].is_deleted
                        /\ store'[i].deleted_at # NULL
                        /\ store'[i].deleted_by =
                              IF key.participant # NULL THEN key.participant
                              ELSE key.remoteJid
      ]_vars

\* the UPDATE of a removal whose key has a participant has marked a row logged from
\* another conversation with that participant
C6_Witness ==
    \E i \in 1..Len(store) :
        store[i].is_deleted /\ store[i].deleted_by = P1 /\ store[i].remote_jid = U1

\* C7: while no row has the id of a deletion notification, the steps of its handler
\* leave the store, the cache, the sends and the error log as they are, and after the
\* SELECT the call returns
C7_UnknownIdIsNoOp ==
    [][ \A t \in DOMAIN tasks :
           LET id == Head(tasks[t].updates).key.id
           IN  /\ (DeletionStep(t, "del_update") /\ RowsOf(store, id) = {}) =>
                     /\ store' = store /\ mediaCache' = mediaCache
                     /\ sent' = sent /\ console' = console
               /\ (DeletionStep(t, "del_select") /\ RowsOf(store, id) = {}) =>
                     /\ store' = store /\ mediaCache' = mediaCache
                     /\ sent' = sent /\ console' = console
                     /\ tasks' = Remove(tasks, t)
      ]_vars

\* the handler of a removal of M2 has run its UPDATE while M1 is logged and M2 is not
C7_Witness ==
    /\ RowsOf(store, "M1") # {}
    /\ RowsOf(store, "M2") = {}
    /\ \E t \in DOMAIN tasks :
          At(t, "update", "del_select") /\ Head(tasks[t].updates).key.id = "M2"

\* C8: once every row of an id reads auto_reply_sent, no step but the bulk clear makes
\* a row of that id read otherwise
C8_AutoReplyNeverReverts ==
    [][ \A id \in Ids :
           (/\ RowsOf(store, id) # {}
            /\ \A i \in RowsOf(store, id) : store[i].auto_reply_sent
            /\ store' # <<>>) =>
              \A i \in RowsOf(store', id) : store'[i].auto_reply_sent
      ]_vars

\* C9: no cache entry is older than the TTL
C9_NoEntryOlderThanTTL ==
    \A id \in DOMAIN mediaCache : clock - mediaCache[id].timestamp <= TTL

\* handler t caches the media of its message in the step taken
Puts(t) ==
    /\ t \in DOMAIN tasks /\ t \in DOMAIN tasks'
    /\ tasks[t].kind = "upsert" /\ tasks[t].pc \in {"download", "upload"}
    /\ tasks'[t].pc = "insert" /\ tasks'[t].buffer # NULL
    /\ Len(tasks') = Len(tasks)

\* C10: after a put, no entry older than the TTL at that time is in the cache, every
\* entry that was not older than the TTL is still there, and so is the entry put
C10_PutSweepsExpired ==
    [][ \A t \in DOMAIN tasks :
           Puts(t) =>
              /\ \A id \in DOMAIN mediaCache' :
                    clock - mediaCache'[id].timestamp <= TTL
              /\ \A id \in DOMAIN mediaCache :
                    (clock - mediaCache[id].timestamp <= TTL) =>
                       id \in DOMAIN mediaCache'
              /\ tasks[t].mek.key.id \in DOMAIN mediaCache'
              /\ mediaCache'[tasks[t].mek.key.id].timestamp = clock
      ]_vars

\* the image M1 was cached and logged with its hosted url, and a later put of M2 has
\* swept it out
C10_Witness ==
    /\ \E i \in 1..Len(store) : store[i].message_id = "M1" /\ store[i].image_url # NULL
    /\ "M2" \in DOMAIN mediaCache
    /\ "M1" \notin DOMAIN mediaCache

-----------------------------------------------------------------------------
(* Properties of the recovery of removed messages, checked under Spec *)

\* how many of the first n sends are sends of the given kind for the id
CountSends(s, n, by, id) ==
    Cardinality({i \in 1..n : s[i].src.by = by /\ s[i].src.id = id})

\* the sends of handleDeletedMessage among the sends
RecoverySends == {i \in DOMAIN sent : sent[i].src.by \in {"recovery", "alert"}}

\* C14: a step of the handler of a deletion notification sends at most one message,
\* addressed to the participant of the notification's key if it has one and to its
\* conversation otherwise; and at every point of the sequence of sends, the alerts
\* sent for an id are no more than the recovered contents sent for it before
C14_RecoveryToDeleter ==
    [][ /\ \A t \in DOMAIN tasks :
              (tasks[t].kind = "update" /\ StepOf(t)) =>
                 LET key == Head(tasks[t].updates).key
                 IN  \/ sent' = sent
                     \/ /\ Len(sent') = Len(sent) + 1
                        /\ SubSeq(sent', 1, Len(sent)) = sent
                        /\ sent'[Len(sent')].src.by =
                              (IF tasks[t].pc = "del_send" THEN "recovery" ELSE "alert")
                        /\ tasks[t].pc \in {"del_send", "del_alert"}
                        /\ sent'[Len(sent')].src.id = key.id
                        /\ sent'[Len(sent')].to =
                              IF key.participant # NULL THEN key.participant
                              ELSE key.remoteJid
        /\ \A n \in 0..Len(sent') : \A id \in Ids :
              CountSends(sent', n, "alert", id) <= CountSends(sent', n, "recovery", id)
      ]_vars

\* the content and the alert for M2, logged from U1, went to P1 who removed it
C14_Witness ==
    /\ \E i \in 1..Len(store) : store[i].message_id = "M2" /\ store[i].sender_jid = U1
    /\ \E i, j \in RecoverySends :
          /\ i < j
          /\ sent[i].src.by = "recovery" /\ sent[j].src.by = "alert"
          /\ sent[i].src.id = "M2" /\ sent[j].src.id = "M2"
          /\ sent[i].to = P1 /\ sent[j].to = P1

\* the caption and the mimetype of the envelopes the normalizer writes
EnvelopeCaptions == {EMPTY, <<"c">>}
EnvelopeMimetypes == {<<"image/jpeg">>}

\* C15: the read of the cache by handleDeletedMessage is a hit iff an entry of the id
\* is in the cache and is not older than the TTL; the content sent first is a media
\* payload iff the read was a hit and the row's type is a media type; otherwise it is
\* a text: the row's text for another type, and for a media type the notice naming
\* the type and the caption of the envelope stored as the row's text
C15_MediaIffCacheHit ==
    [][ \A t \in DOMAIN tasks :
           /\ (DeletionStep(t, "del_select") /\ Len(tasks') = Len(tasks)
                 /\ tasks'[t].pc = "del_send") =>
                 LET id == Head(tasks[t].updates).key.id
                 IN  (tasks'[t].cachedMedia # NONE) <=>
                        (/\ id \in DOMAIN mediaCache
                         /\ clock - mediaCache[id].timestamp <= TTL)
           /\ (DeletionStep(t, "del_send") /\ Len(sent') = Len(sent) + 1) =>
                 LET row == tasks[t].originalMessage
                     hit == tasks[t].cachedMedia # NONE
                     x == sent'[Len(sent')].content
                     isMedia == row.message_type \in
                                   {"imageMessage", "videoMessage", "audioMessage"}
                 IN  /\ (x.kind # "text") <=> (hit /\ isMedia)
                     /\ (x.kind # "text") => x.media # NULL
                     /\ (x.kind = "text" /\ ~isMedia) => x.body = row.message_text
                     /\ (x.kind = "text" /\ isMedia) =>
                           \E c \in EnvelopeCaptions, m \in EnvelopeMimetypes :
                              /\ row.message_text = StringifyEnvelope(c, m)
                              /\ x.body = <<"[Media Message Deleted] Type: ",
                                            row.message_type, ", Caption: ">>
                                          \o (IF c # EMPTY THEN c ELSE <<"No caption">>)
      ]_vars

-----------------------------------------------------------------------------
(* Overlapping handlers, under Spec.  The handlers in flight are listed in  *)
(* the order in which their events were received.                           *)

BeforeInsert == {"download", "upload", "insert"}

\* C27: the store writes of a conversation keep the order of receipt: when the
\* INSERT of a handler completes, no handler of an event of the same conversation
\* that was received earlier is still suspended on its media download or upload.
C27_WritesInReceiveOrder ==
    [][\A t \in DOMAIN tasks :
         (At(t, "upsert", "insert") /\ StepOf(t) /\ Len(store') = Len(store) + 1) =>
            \A u \in 1..(t - 1) :
                ~ /\ tasks[u].kind = "upsert"
                  /\ tasks[u].mek.key.remoteJid = tasks[t].mek.key.remoteJid
                  /\ tasks[u].pc \in {"download", "upload"}]_vars

\* C28: deletion correlation is not lost under interleaving: when the handler of a
\* deletion notification has sent the recovery and the alert for an id, and the
\* handler of the new-message event of that id, received before the notification,
\* has persisted its record, every record of the id has is_deleted = TRUE.
C28_DeletionNotLost ==
    [][\A t \in DOMAIN tasks :
         (At(t, "update", "del_alert") /\ StepOf(t) /\ Len(sent') = Len(sent) + 1) =>
            \A u \in 1..(t - 1) :
                ( /\ tasks[u].kind = "upsert"
                  /\ tasks[u].mek.key.id = KeyOf(tasks[t]).id
                  /\ tasks[u].pc \notin BeforeInsert ) =>
                    \A i \in RowsOf(store', KeyOf(tasks[t]).id) : store'[i].is_deleted]_vars

-----------------------------------------------------------------------------
(* Failures of the media download and of the upload, under Spec             *)

-----------------------------------------------------------------------------
(* The environment of the batch specification: a text message M2 that no    *)
(* rule matches, and batches of several updates; awaited operations may fail *)

MaxBatchEvents == 3

BatchMeks == { Mek("M2", U1, NULL, FALSE, <<>>, TextLeaf(<<"x">>)) }

\* removals of M2 and then M1; or a removal of M1, an edit and a removal of M2
BatchUpdates ==
    { << Update("M2", U1, NULL, NULL), Update("M1", U1, NULL, NULL) >>,
      << Update("M1", U1, NULL, NULL), Update("M1", U1, NULL, <<"edited">>),
         Update("M2", U1, NULL, NULL) >> }

InitBatch ==
    /\ store = <<>>
    /\ mediaCache = <<>>
    /\ replyRules = PipelineRules
    /\ clock = 0
    /\ tasks = <<>>
    /\ sent = <<>>
    /\ console = {}
    /\ paths = {}
    /\ quota = [events |-> MaxBatchEvents, faulty |-> TRUE]

NextBatch ==
    \/ \E mek \in BatchMeks : UpsertReceive(mek)
    \/ \E updates \in BatchUpdates : UpdateReceive(updates)
    \/ \E t \in DOMAIN tasks : InsertDone(t)
    \/ \E t \in DOMAIN tasks : ProfileDone(t)
    \/ \E t \in DOMAIN tasks : DelUpdateDone(t)
    \/ \E t \in DOMAIN tasks : DelSelectDone(t)
    \/ \E t \in DOMAIN tasks : DelSendDone(t)
    \/ \E t \in DOMAIN tasks : DelAlertDone(t)

SpecBatch == InitBatch /\ [][NextBatch]_vars

\* the removals among the updates from position i on
RemovalsFrom(updates, i) == {j \in i..Len(updates) : updates[j].message = NULL}

\* C16: a step of the handler of a batch in which the awaited UPDATE, SELECT or send
\* fails logs the failure, changes neither the store, the cache nor the sends, and
\* leaves every other handler as it is; the handler goes on with the next removal of
\* its batch, and returns only if the batch has none left
C16_RecoveryFailureContained ==
    [][ \A t \in DOMAIN tasks :
           (tasks[t].kind = "update" /\ StepOf(t) /\ quota' # quota) =>
              LET updates == tasks[t].updates
                  later == RemovalsFrom(updates, 2)
              IN  /\ "Deleted message handler error" \in console'
                  /\ store' = store /\ mediaCache' = mediaCache /\ sent' = sent
                  /\ IF later = {}
                     THEN tasks' = Remove(tasks, t)
                     ELSE LET j == CHOOSE j \in later : \A k \in later : j <= k
                          IN  /\ Len(tasks') = Len(tasks)
                              /\ \A u \in DOMAIN tasks : u # t => tasks'[u] = tasks[u]
                              /\ tasks'[t].kind = "update"
                              /\ tasks'[t].pc = "del_update"
                              /\ tasks'[t].updates = SubSeq(updates, j, Len(updates))
      ]_vars

\* the handling of the removal of M1 failed and was logged, and the removal of M2 that
\* followed it in the batch was carried through to the send of its content
C16_Witness ==
    /\ "Deleted message handler error" \in console
    /\ \E t \in DOMAIN tasks :
          /\ At(t, "update", "del_alert")
          /\ Len(tasks[t].updates) = 1
          /\ Head(tasks[t].updates).key.id = "M2"
    /\ \E i \in DOMAIN sent : sent[i].src.by = "recovery" /\ sent[i].src.id = "M2"

-----------------------------------------------------------------------------
(* The environment of the branch specification: one message per branch of   *)
(* the upsert handler after the INSERT, each with its own id; awaited        *)
(* operations may fail                                                       *)

MaxPathEvents == 2

Owner == restrictedNumber

\* an extendedTextMessage with its contextInfo (NONE: absent)
ExtendedTextLeaf(text, contextInfo) ==
    [type |-> "extendedTextMessage", text |-> text, caption |-> NULL, mimetype |-> NULL,
     contextInfo |-> contextInfo]

\* a status image quoted in a chat
QuotedStatus ==
    [quotedMessage |-> [layers |-> <<>>,
                        leaf |-> MediaLeaf("imageMessage", <<"c">>, <<"image/jpeg">>)],
     remoteJid |-> statusBroadcast]

Send == <<"s","e","n","d">>

PathMeks ==
    { \* the trigger word alone, quoting a status image, and without contextInfo
      Mek("S1", U1, NULL, FALSE, <<>>, TextLeaf(Send)),
      Mek("S2", U1, NULL, FALSE, <<>>, ExtendedTextLeaf(Send, QuotedStatus)),
      Mek("S3", U1, NULL, FALSE, <<>>, ExtendedTextLeaf(Send, NONE)),
      \* a text the rule matches
      Mek("R1", U1, NULL, FALSE, <<>>, TextLeaf(<<"H","i">>)),
      \* commands: of anyone, of the owner, owner-gated of another sender, unknown
      Mek("K1", U1, NULL, FALSE, <<>>, TextLeaf(<<".", "PING">>)),
      Mek("K2", Owner, NULL, FALSE, <<>>, TextLeaf(<<".", "delete", " ", "clear">>)),
      Mek("K7", Owner, NULL, FALSE, <<>>, TextLeaf(<<".", "delete">>)),
      Mek("K3", Owner, NULL, FALSE, <<>>, TextLeaf(<<".", "reload">>)),
      Mek("K4", U1, NULL, FALSE, <<>>, TextLeaf(<<".", "reload">>)),
      Mek("K5", U1, NULL, FALSE, <<>>, TextLeaf(<<".", "menu">>)),
      Mek("K6", U1, NULL, FALSE, <<>>, TextLeaf(<<".", "DELETE", " ", "clear">>)),
      \* a text of the bot itself, and a text of the restricted participant
      Mek("N1", U1, NULL, TRUE, <<>>, TextLeaf(<<"H","i">>)),
      Mek("N2", Owner, NULL, FALSE, <<>>, TextLeaf(<<"H","i">>)) }

PathIds == {mek.key.id : mek \in PathMeks}

\* the documents a reload may fetch: the rules in use, or a document without rules
ReloadDocs == {PipelineRules, [iterable |-> FALSE, rules |-> <<>>]}

InitPaths ==
    /\ store = <<>>
    /\ mediaCache = <<>>
    /\ replyRules = PipelineRules
    /\ clock = 0
    /\ tasks = <<>>
    /\ sent = <<>>
    /\ console = {}
    /\ paths = {}
    /\ quota = [events |-> MaxPathEvents, faulty |-> TRUE]

NextPaths ==
    \/ \E mek \in PathMeks : UpsertReceive(mek)
    \/ \E t \in DOMAIN tasks : InsertDone(t)
    \/ \E t \in DOMAIN tasks : ProfileDone(t)
    \/ \E t \in DOMAIN tasks : MarkDone(t)
    \/ \E t \in DOMAIN tasks : SendDone(t)
    \/ \E t \in DOMAIN tasks : StatusReplyDone(t)
    \/ \E t \in DOMAIN tasks : StatusDownloadDone(t)
    \/ \E t \in DOMAIN tasks : StatusWriteDone(t)
    \/ \E t \in DOMAIN tasks : StatusSendDone(t)
    \/ \E t \in DOMAIN tasks : StatusUnlinkDone(t)
    \/ \E t \in DOMAIN tasks : CmdReplyDone(t)
    \/ \E t \in DOMAIN tasks : \E doc \in ReloadDocs : CmdReloadGetDone(t, doc)
    \/ \E t \in DOMAIN tasks : CmdReloadWriteDone(t)
    \/ \E t \in DOMAIN tasks : CmdReloadLoadDone(t)
    \/ \E t \in DOMAIN tasks : CmdDeleteDone(t)
    \/ \E t \in DOMAIN tasks : ClearConnectDone(t)
    \/ \E t \in DOMAIN tasks : ClearBeginDone(t)
    \/ \E t \in DOMAIN tasks : ClearDeleteDone(t)
    \/ \E t \in DOMAIN tasks : ClearCommitDone(t)
    \/ \E t \in DOMAIN tasks : ClearRollbackDone(t)

SpecPaths == InitPaths /\ [][NextPaths]_vars

-----------------------------------------------------------------------------
(* The three branches of the upsert handler, under SpecPaths                *)

\* the branches the handlers of the event with this id have entered
PathsOf(id) == {p.path : p \in {q \in paths : q.id = id}}

PathMekOf(id) == CHOOSE mek \in PathMeks : mek.key.id = id

\* the handlers of the event with this id that are past the INSERT
Persisted(t) ==
    /\ t \in DOMAIN tasks
    /\ tasks[t].kind = "upsert"
    /\ tasks[t].pc \notin {"download", "upload", "insert"}

StatusPcs ==
    {"status_reply", "status_download", "status_write", "status_send", "status_unlink"}

RulePcs == {"mark", "delay", "fetch", "send"}

CommandPcs ==
    {"cmd_reply", "cmd_reload_get", "cmd_reload_write", "cmd_reload_load", "cmd_delete",
     "clear_connect", "clear_begin", "clear_delete", "clear_commit", "clear_rollback"}

\* the branch a handler in flight is in
BranchOf(pc) ==
    IF pc \in StatusPcs THEN {"status"}
    ELSE IF pc \in RulePcs THEN {"rules"}
    ELSE IF pc \in CommandPcs THEN {"command"}
    ELSE {}

\* the branch of an outbound message of the upsert handler, and the event it is for
SendPath(entry) ==
    CASE entry.src.by = "rule" -> {[id |-> entry.quoted.key.id, path |-> "rules"]}
      [] entry.src.by \in {"status", "command"} ->
            {[id |-> entry.src.id, path |-> entry.src.by]}
      [] OTHER -> {}

\* C17 as stated: every inbound event with content that is persisted runs exactly
\* one of the three paths status-save, rule dispatch, command dispatch: a handler
\* that returns after the INSERT has entered exactly one of them, and a trigger word
\* has entered status-save only.
C17_ExactlyOnePath ==
    [][\A t \in DOMAIN tasks :
         (Persisted(t) /\ Returns(t)) =>
            LET id == tasks[t].mek.key.id
            IN  /\ Cardinality({p \in paths' : p.id = id}) = 1
                /\ tasks[t].messageText \in statusTriggers =>
                        [id |-> id, path |-> "status"] \in paths']_vars

\* C17 amended: no event runs two of the three paths; an event whose text is a
\* trigger word runs status-save only, a text with the command prefix runs the
\* command dispatch only, and a text of the bot itself or of the restricted
\* participant that is neither runs none of the three; every handler in flight and
\* every outbound message belongs to the one path its event has entered.
C17_AtMostOnePath ==
    /\ \A id \in PathIds :
        LET mek == PathMekOf(id)
            text == mek.message.leaf.text
        IN  /\ Cardinality(PathsOf(id)) <= 1
            /\ text \in statusTriggers => PathsOf(id) \subseteq {"status"}
            /\ (text \notin statusTriggers /\ startsWith(text, <<".">>)) =>
                    PathsOf(id) \subseteq {"command"}
            /\ ( /\ text \notin statusTriggers
                 /\ ~startsWith(text, <<".">>)
                 /\ \/ mek.key.fromMe
                    \/ SenderOf(mek.key) = restrictedNumber
                    \/ mek.key.remoteJid = restrictedNumber ) => PathsOf(id) = {}
    /\ \A t \in DOMAIN tasks :
        tasks[t].kind = "upsert" =>
            /\ Cardinality(tasks[t].ran) <= 1
            /\ BranchOf(tasks[t].pc) \subseteq tasks[t].ran
            /\ tasks[t].ran \subseteq PathsOf(tasks[t].mek.key.id)
    /\ \A i \in DOMAIN sent : SendPath(sent[i]) \subseteq paths

\* a status was saved and sent, and the text of the bot itself was persisted and its
\* handler has returned without entering any of the three paths
C17_Witness ==
    /\ tasks = <<>>
    /\ \E i \in DOMAIN sent : sent[i].src = [by |-> "status", id |-> "S2"]
                              /\ sent[i].content.kind # "text"
    /\ PathsOf("S2") = {"status"}
    /\ \E r \in DOMAIN store : store[r].message_id = "N1"
    /\ PathsOf("N1") = {}

-----------------------------------------------------------------------------
(* A failure of the INSERT, under SpecPaths                                  *)

\* C18: when the INSERT of an inbound event fails the handler logs the failure and
\* returns at once: nothing is stored, marked, sent or entered for the event, the
\* INSERT is not awaited again, and the failure does not reach the outer catch; the
\* other handlers in flight are untouched.
C18_InsertFailureDropsEvent ==
    [][\A t \in DOMAIN tasks :
         (At(t, "upsert", "insert") /\ StepOf(t) /\ quota'.events < quota.events
              /\ Len(store') = Len(store)) =>
            /\ tasks' = Remove(tasks, t)
            /\ console' = console \cup {"Database insert error"}
            /\ UNCHANGED <<store, mediaCache, replyRules, sent, paths>>]_vars

\* the INSERT of the one event received has failed: its handler is gone, nothing is
\* stored, sent or entered, and the budget admits a next event
C18_Witness ==
    /\ "Database insert error" \in console
    /\ "Message processing error" \notin console
    /\ tasks = <<>>
    /\ store = <<>>
    /\ sent = <<>>
    /\ paths = {}

-----------------------------------------------------------------------------
(* The owner-gated commands, under SpecPaths                                 *)

GatedCommands == { <<".", "reload">>, <<".", "delete">> }

\* a handler past the INSERT whose text is an owner-gated command of a sender that
\* is not in the allow-list
GatedOfStranger(t) ==
    /\ Persisted(t)
    /\ startsWith(tasks[t].messageText, <<".">>)
    /\ toLowerCase(CommandOf(tasks[t].messageText)) \in GatedCommands
    /\ SenderOf(tasks[t].mek.key)[1] \notin ownerNumber

\* C22: an owner-gated command of a sender outside the allow-list produces only the
\* fixed refusal: no step of its handler changes the rule set or the store, the
\* handler never awaits the reload or handleDelete, and the one message it sends is
\* the refusal naming the command, in the conversation of the command.
C22_StrangerGetsRefusalOnly ==
    [][\A t \in DOMAIN tasks :
         (GatedOfStranger(t) /\ StepOf(t)) =>
            LET old == tasks[t]
                command == toLowerCase(CommandOf(old.messageText))
                refusal == <<"Only owners can use the ",
                             IF command[2] = "reload" THEN ".reload" ELSE ".delete",
                             " command.">>
            IN  /\ UNCHANGED <<store, replyRules, mediaCache>>
                /\ old.pc \in {"dp", "cmd_reply"}
                /\ Len(tasks') = Len(tasks) =>
                       /\ old.pc = "dp"
                       /\ tasks'[t].pc = "cmd_reply"
                       /\ tasks'[t].reply = refusal
                       /\ sent' = sent
                /\ sent' # sent =>
                       /\ old.pc = "cmd_reply"
                       /\ sent' = Append(sent,
                              Sent(old.mek.key.remoteJid,
                                   [kind |-> "text", body |-> refusal, media |-> NULL],
                                   old.mek, [by |-> "command", id |-> old.mek.key.id]))]_vars

\* the refusals of .reload and of .delete clear have been sent, both commands are
\* stored, and the rule set is the one loaded at the start
C22_Witness ==
    /\ tasks = <<>>
    /\ \E i \in DOMAIN sent : /\ sent[i].src = [by |-> "command", id |-> "K4"]
                              /\ sent[i].content.body = Refusal(".reload")
    /\ \E i \in DOMAIN sent : /\ sent[i].src = [by |-> "command", id |-> "K6"]
                              /\ sent[i].content.body = Refusal(".delete")
    /\ Len(store) = 2
    /\ replyRules = PipelineRules

-----------------------------------------------------------------------------
(* The bulk clear, under SpecPaths                                           *)

ClearPcs == {"clear_connect", "clear_begin", "clear_delete", "clear_commit", "clear_rollback"}

\* C23: the bulk clear is atomic: no step of a clear changes the rows that are
\* visible except its successful COMMIT, which removes every row the DELETE has
\* found (all rows present then) at once; a clear that reports failure, at whatever
\* step, has left every row in place; and no step of any handler removes rows in
\* any other way.
C23_ClearAllOrNothing ==
    [][/\ \A t \in DOMAIN tasks :
            (tasks[t].kind = "upsert" /\ tasks[t].pc \in ClearPcs /\ StepOf(t)) =>
                LET old == tasks[t]
                    new == tasks'[t]
                IN  /\ Len(tasks') = Len(tasks)
                    /\ (old.pc = "clear_delete" /\ new.pc = "clear_commit") =>
                            new.txnRows = Len(store)
                    /\ store' # store =>
                            /\ old.pc = "clear_commit"
                            /\ new.reply = <<"Database cleared successfully">>
                            /\ old.txnRows <= Len(store)
                            /\ store' = SubSeq(store, old.txnRows + 1, Len(store))
                    /\ new.reply = <<"Database cleared successfully">> =>
                            /\ old.pc = "clear_commit"
                            /\ store' = SubSeq(store, old.txnRows + 1, Len(store))
                    /\ new.reply = <<"Failed to process delete operation">> =>
                            /\ store' = store
                            /\ "Delete operation error" \in console'
       /\ Len(store') < Len(store) =>
            \E t \in DOMAIN tasks :
                /\ At(t, "upsert", "clear_commit")
                /\ StepOf(t)
                /\ tasks[t].txnRows > 0]_vars

\* a clear has failed after its DELETE had found the one row of the store: the
\* failure is to be reported and the row is still there
C23_Witness ==
    /\ "Delete operation error" \in console
    /\ Len(store) = 1
    /\ \E t \in DOMAIN tasks :
        /\ At(t, "upsert", "cmd_reply")
        /\ tasks[t].reply = <<"Failed to process delete operation">>
        /\ tasks[t].txnRows = 1

-----------------------------------------------------------------------------
(* The reload of the rule document, under SpecPaths                          *)

\* C24: a reload that has fetched a malformed rule document (one without an ordered
\* rules list) rejects it as a whole: the rule set in memory stays as it was, still
\* has a rules list to match later messages against, and the reload reports failure.
C24_MalformedReloadRejected ==
    [][\A t \in DOMAIN tasks :
         (At(t, "upsert", "cmd_reload_load") /\ StepOf(t) /\ ~tasks[t].doc.iterable) =>
            /\ replyRules' = replyRules
            /\ replyRules'.iterable
            /\ Len(tasks') = Len(tasks)
            /\ tasks'[t].reply = <<"Failed to reload reply.json">>]_vars

-----------------------------------------------------------------------------
(* The environment of the dispatch specification: a text "Hi" answered by   *)
(* one rule with a text, a delayed image, an item of no known type and a     *)
(* delayed text; awaited operations may fail                                 *)

MaxDispatchEvents == 2

DispatchResponse ==
    << TextItem(<<"a">>, 0),
       MediaItem("image", <<"p">>, <<"https://x/p.jpg">>, 500),
       [type |-> "sticker", content |-> NULL, caption |-> NULL, url |-> NULL, delay |-> 0],
       TextItem(<<"b">>, 200) >>

DispatchRules ==
    [iterable |-> TRUE, rules |-> << Rule(NULL, <<"h","i">>, DispatchResponse) >>]

DispatchMeks == { Mek("M1", U1, NULL, FALSE, <<>>, TextLeaf(<<"H","i">>)) }

InitDispatch ==
    /\ store = <<>>
    /\ mediaCache = <<>>
    /\ replyRules = DispatchRules
    /\ clock = 0
    /\ tasks = <<>>
    /\ sent = <<>>
    /\ console = {}
    /\ paths = {}
    /\ quota = [events |-> MaxDispatchEvents, faulty |-> TRUE]

NextDispatch ==
    \/ \E mek \in DispatchMeks : UpsertReceive(mek)
    \/ \E t \in DOMAIN tasks : InsertDone(t)
    \/ \E t \in DOMAIN tasks : ProfileDone(t)
    \/ \E t \in DOMAIN tasks : MarkDone(t)
    \/ \E t \in DOMAIN tasks : DelayDone(t)
    \/ \E t \in DOMAIN tasks : FetchDone(t)
    \/ \E t \in DOMAIN tasks : SendDone(t)

SpecDispatch == InitDispatch /\ [][NextDispatch]_vars

-----------------------------------------------------------------------------
(* The loop over the response items, under SpecDispatch                      *)

\* the items the switch of the loop has a case for
Dispatchable(r) == r.type = "text" \/ r.type \in ResponseMediaTypes

\* the items of the response after item i that the switch has a case for
Following(task, i) ==
    {j \in (i + 1)..Len(task.response) : Dispatchable(task.response[j])}

\* a step of a handler that starts the dispatch of an item: its send, or the fetch
\* of its media (the send that follows the fetch belongs to the same item)
Begins(old, new) ==
    /\ new.pc \in {"send", "fetch"}
    /\ <<old.pc, old.item>> # <<new.pc, new.item>>
    /\ ~(old.pc = "fetch" /\ new.pc = "send" /\ old.item = new.item)

\* C19: the response items of the selected rule are dispatched strictly in list
\* order and never concurrently: a handler never goes back in the list and skips
\* no item it has a case for; only the handler awaiting the send of its current item
\* completes a send, and it starts the next item only at that completion; an item
\* with a delay is started only by the timer set when the previous item completed,
\* and not before that delay has elapsed.
C19_InOrderWithDelays ==
    [][\A t \in DOMAIN tasks :
         (tasks[t].kind = "upsert" /\ tasks[t].rule # 0 /\ StepOf(t)) =>
            LET old == tasks[t]
            IN  /\ sent' # sent =>
                    /\ old.pc = "send"
                    /\ Len(sent') = Len(sent) + 1
                    /\ SubSeq(sent', 1, Len(sent)) = sent
                    /\ sent'[Len(sent')].src.by = "rule"
                    /\ sent'[Len(sent')].src.item = old.item
                /\ (Len(tasks') = Len(tasks) /\ tasks'[t].pc \in RulePcs) =>
                    LET new == tasks'[t]
                        r == new.response[new.item]
                    IN  /\ new.response = old.response
                        /\ new.item >= old.item
                        /\ \A j \in (old.item + 1)..(new.item - 1) :
                               ~Dispatchable(old.response[j])
                        /\ new.item > old.item =>
                               /\ old.pc \in {"mark", "send", "fetch"}
                               /\ old.pc = "send" => Len(sent') = Len(sent) + 1
                        /\ (new.pc = "delay" /\ new.item > old.item) =>
                               /\ r.delay # 0
                               /\ new.timerAt = clock'
                               /\ clock' = clock
                        /\ (Begins(old, new) /\ r.delay # 0) =>
                               /\ old.pc = "delay"
                               /\ old.item = new.item
                               /\ clock' >= old.timerAt + r.delay]_vars

\* one handler has sent the text, the delayed image and the delayed text, in this
\* order, and both delays have passed
C19_Witness ==
    /\ tasks = <<>>
    /\ Len(sent) = 3
    /\ sent[1].src.item = 1 /\ sent[2].src.item = 2 /\ sent[3].src.item = 4
    /\ sent[2].content.kind = "image"
    /\ clock >= 700

\* C20: a failure of the media fetch of a response item skips only that item:
\* nothing is sent for it, the failure is logged by fetchMedia and does not reach
\* the outer catch, and the handler goes on with the next item of the rule in list
\* order (its delay first), or returns when no item is left.
C20_FetchFailureSkipsItem ==
    [][\A t \in DOMAIN tasks :
         (At(t, "upsert", "fetch") /\ StepOf(t) /\ quota'.events < quota.events) =>
            LET old == tasks[t]
                rest == Following(old, old.item)
            IN  /\ console' = console \cup {"Media fetch error"}
                /\ UNCHANGED <<store, mediaCache, replyRules, sent, clock>>
                /\ IF rest = {}
                   THEN tasks' = Remove(tasks, t)
                   ELSE LET j == CHOOSE k \in rest : \A l \in rest : k <= l
                            new == tasks'[t]
                        IN  /\ Len(tasks') = Len(tasks)
                            /\ new.item \in (old.item + 1)..j
                            /\ new.pc = IF new.response[new.item].delay # 0 THEN "delay"
                                        ELSE IF new.response[j].type = "text" THEN "send"
                                        ELSE "fetch"
                            /\ new.pc # "delay" => new.item = j]_vars

\* the fetch of the image has failed; the handler has sent the items before and
\* after it and nothing for the image, and has returned normally
C20_Witness ==
    /\ "Media fetch error" \in console
    /\ "Message processing error" \notin console
    /\ tasks = <<>>
    /\ Len(sent) = 2
    /\ sent[1].src.item = 1
    /\ sent[2].src.item = 4

-----------------------------------------------------------------------------
(* The environment of the template specification: reply.json holds one rule *)
(* answering "hi" with one text template; the display name of the sender is *)
(* any string of up to MaxNameLen tokens over NameTokens                    *)

MaxTemplateEvents == 1
MaxNameLen == 2

\* a letter, the replacement pattern of a dollar sign, and another placeholder
NameTokens == {"A", "$$", "${userid}"}

PushNames == UNION {[1..n -> NameTokens] : n \in 1..MaxNameLen}

Templates ==
    { <<"h", "i">>,
      <<"Hi ", "${pushname}", " ", "${userid}", " ", "${senderdpurl}">>,
      <<"${senderdpurl}", "${userid}", "${pushname}">>,
      <<"${userid}", " only">> }

TemplateRules ==
    { [iterable |-> TRUE, rules |-> << Rule(NULL, <<"h","i">>, << TextItem(tpl, 0) >>) >>]
        : tpl \in Templates }

TemplateMeks ==
    { [Mek("M1", U1, NULL, FALSE, <<>>, TextLeaf(<<"H","i">>)) EXCEPT !.pushName = name]
        : name \in PushNames }

InitTemplate ==
    /\ store = <<>>
    /\ mediaCache = <<>>
    /\ replyRules \in TemplateRules
    /\ clock = 0
    /\ tasks = <<>>
    /\ sent = <<>>
    /\ console = {}
    /\ paths = {}
    /\ quota = [events |-> MaxTemplateEvents, faulty |-> FALSE]

NextTemplate ==
    \/ \E mek \in TemplateMeks : UpsertReceive(mek)
    \/ \E t \in DOMAIN tasks : InsertDone(t)
    \/ \E t \in DOMAIN tasks : ProfileDone(t)
    \/ \E t \in DOMAIN tasks : MarkDone(t)
    \/ \E t \in DOMAIN tasks : SendDone(t)

SpecTemplate == InitTemplate /\ [][NextTemplate]_vars

-----------------------------------------------------------------------------
(* Template substitution, under SpecTemplate                                 *)

Placeholders == {"${pushname}", "${userid}", "${senderdpurl}"}

\* the template with each placeholder replaced by its value, copied verbatim
RECURSIVE LiteralFill(_, _, _, _)
LiteralFill(tpl, pushName, userId, senderDpUrl) ==
    IF tpl = <<>> THEN <<>>
    ELSE LET c == Head(tpl)
             rest == LiteralFill(Tail(tpl), pushName, userId, senderDpUrl)
         IN  CASE c = "${pushname}" -> pushName \o rest
               [] c = "${userid}" -> userId \o rest
               [] c = "${senderdpurl}" -> senderDpUrl \o rest
               [] OTHER -> <<c>> \o rest

Occurrences(tpl, c) == Cardinality({i \in DOMAIN tpl : tpl[i] = c})

\* C21: template substitution is literal: the text sent for a template with none of
\* the placeholders is the template, and the text sent for a template with each of
\* the three placeholders once is the template with each placeholder replaced by
\* the sender's value copied verbatim, for every display name.
C21_LiteralSubstitution ==
    \A i \in DOMAIN sent :
        sent[i].src.by = "rule" =>
            LET tpl == replyRules.rules[sent[i].src.rule].response[sent[i].src.item].content
                mek == sent[i].quoted
                userId == <<SenderOf(mek.key)[1]>>
                dp == <<"https://pps/", SenderOf(mek.key)[1]>>
            IN  /\ (\A c \in Placeholders : Occurrences(tpl, c) = 0) =>
                        sent[i].content.body = tpl
                /\ (\A c \in Placeholders : Occurrences(tpl, c) = 1) =>
                        sent[i].content.body = LiteralFill(tpl, PushNameOf(mek), userId, dp)

-----------------------------------------------------------------------------
(* The environment of the unwrap specification: a text, an extended text or *)
(* a sticker inside any nesting of up to MaxWrapDepth wrappers               *)

MaxUnwrapEvents == 1
MaxWrapDepth == 2

Nestings == UNION {[1..n -> WrapperTypes] : n \in 0..MaxWrapDepth}

\* the innermost messages, each with the id of its event
UnwrapLeaves ==
    { <<"L1", TextLeaf(<<"x">>)>>,
      <<"L2", TextLeaf(<<"y">>)>>,
      <<"L3", TextLeaf(<<".", "menu">>)>>,
      <<"L4", TextLeaf(EMPTY)>>,
      <<"L5", ExtendedTextLeaf(<<"x">>, NONE)>>,
      <<"L6", ExtendedTextLeaf(<<"y">>, NONE)>>,
      <<"L7", [type |-> "stickerMessage", text |-> NULL, caption |-> NULL,
               mimetype |-> NULL]>> }

UnwrapMeks ==
    { Mek(l[1], U1, NULL, FALSE, layers, l[2]) : layers \in Nestings, l \in UnwrapLeaves }

InitUnwrap ==
    /\ store = <<>>
    /\ mediaCache = <<>>
    /\ replyRules = PipelineRules
    /\ clock = 0
    /\ tasks = <<>>
    /\ sent = <<>>
    /\ console = {}
    /\ paths = {}
    /\ quota = [events |-> MaxUnwrapEvents, faulty |-> FALSE]

NextUnwrap ==
    \/ \E mek \in UnwrapMeks : UpsertReceive(mek)
    \/ \E t \in DOMAIN tasks : InsertDone(t)
    \/ \E t \in DOMAIN tasks : ProfileDone(t)

SpecUnwrap == InitUnwrap /\ [][NextUnwrap]_vars

-----------------------------------------------------------------------------
(* Normalization, under SpecUnwrap                                           *)

TextKinds == {"conversation", "extendedTextMessage"}

\* C25: the content kind recorded for an event is never a wrapper kind: for every
\* nesting of the two wrappers up to the depth, in either order, the handler works
\* on the innermost message: its kind is the kind of the innermost message and the
\* text of a text kind is the innermost text; so is every row stored.
C25_NeverWrapperKind ==
    /\ \A t \in DOMAIN tasks :
        tasks[t].kind = "upsert" =>
            LET leaf == tasks[t].mek.message.leaf
            IN  /\ tasks[t].messageType \notin WrapperTypes
                /\ tasks[t].messageType = leaf.type
                /\ leaf.type \in TextKinds => tasks[t].messageText = leaf.text
    /\ \A i \in DOMAIN store : store[i].message_type \notin WrapperTypes

-----------------------------------------------------------------------------
(* The environment of the eligibility specification: the texts "Hi" and     *)
(* ".Hi", which both contain the trigger of the rule, of the bot or of      *)
(* another sender, in a chat with a user, in a chat with the restricted     *)
(* participant, of the restricted participant in a group, and of a user in  *)
(* the conversation of the restricted participant                            *)

MaxEligibleEvents == 2

Conversations ==
    { <<U1, NULL>>, <<restrictedNumber, NULL>>, <<G1, restrictedNumber>>,
      <<restrictedNumber, P1>> }

EligibleTexts == { <<"H","i">>, <<".", "H","i">> }

\* the id of an event tells its text, its author and its conversation
EligibleMeks ==
    { Mek(<<text, fromMe, c>>, c[1], c[2], fromMe, <<>>, TextLeaf(text)) :
        text \in EligibleTexts, fromMe \in BOOLEAN, c \in Conversations }

InitEligible ==
    /\ store = <<>>
    /\ mediaCache = <<>>
    /\ replyRules = PipelineRules
    /\ clock = 0
    /\ tasks = <<>>
    /\ sent = <<>>
    /\ console = {}
    /\ paths = {}
    /\ quota = [events |-> MaxEligibleEvents, faulty |-> FALSE]

NextEligible ==
    \/ \E mek \in EligibleMeks : UpsertReceive(mek)
    \/ \E t \in DOMAIN tasks : InsertDone(t)
    \/ \E t \in DOMAIN tasks : ProfileDone(t)
    \/ \E t \in DOMAIN tasks : MarkDone(t)
    \/ \E t \in DOMAIN tasks : SendDone(t)

SpecEligible == InitEligible /\ [][NextEligible]_vars

-----------------------------------------------------------------------------
(* The eligibility filter, under SpecEligible                                *)

\* an event the claim excludes from rule dispatch
Excluded(mek) ==
    \/ startsWith(mek.message.leaf.text, <<".">>)
    \/ mek.key.fromMe
    \/ SenderOf(mek.key) = restrictedNumber
    \/ mek.key.remoteJid = restrictedNumber

EligibleMekOf(id) == CHOOSE mek \in EligibleMeks : mek.key.id = id

\* C26: rule dispatch runs only for eligible messages: for a message whose text
\* starts with the command prefix, that is authored by the bot itself, or whose
\* sender or conversation is the restricted participant, no handler selects a rule
\* or enters the rule loop, no row has auto_reply_sent set, and no rule response is
\* sent.
C26_OnlyEligibleDispatched ==
    /\ \A t \in DOMAIN tasks :
        (tasks[t].kind = "upsert" /\ Excluded(tasks[t].mek)) =>
            /\ tasks[t].rule = 0
            /\ tasks[t].pc \notin RulePcs
            /\ "rules" \notin tasks[t].ran
    /\ \A p \in paths : p.path = "rules" => ~Excluded(EligibleMekOf(p.id))
    /\ \A i \in DOMAIN store :
        store[i].auto_reply_sent => ~Excluded(EligibleMekOf(store[i].message_id))
    /\ \A i \in DOMAIN sent : sent[i].src.by = "rule" => ~Excluded(sent[i].quoted)

\* the text "Hi" of a user has been answered, and the same text sent by a user in
\* the conversation of the restricted participant has been stored and its handler
\* has returned without a reply
C26_Witness ==
    /\ tasks = <<>>
    /\ Len(sent) = 1
    /\ sent[1].src.by = "rule"
    /\ sent[1].quoted.key.remoteJid = U1
    /\ \E i \in DOMAIN store :
        /\ store[i].remote_jid = restrictedNumber
        /\ store[i].sender_jid = P1
        /\ store[i].message_text = <<"H","i">>
        /\ ~store[i].auto_reply_sent
        /\ ~EligibleMekOf(store[i].message_id).key.fromMe

-----------------------------------------------------------------------------
(* The UPDATE of auto_reply_sent, under SpecDispatch                         *)

\* C29: the mark precedes the dispatch: a handler starts the loop over the response
\* items only at the completion of its UPDATE, with auto_reply_sent set on every
\* row of the message; every rule response is sent by a handler whose UPDATE has
\* completed; and a handler whose UPDATE fails has sent nothing, sends nothing and
\* leaves through the outer catch.
C29_MarkPrecedesDispatch ==
    [][\A t \in DOMAIN tasks :
         (tasks[t].kind = "upsert" /\ StepOf(t)) =>
            LET old == tasks[t]
                id == old.mek.key.id
            IN  /\ old.pc = "mark" => old.marks = 0
                /\ old.pc \in {"delay", "fetch", "send"} => old.marks = 1
                /\ (sent' # sent /\ sent'[Len(sent')].src.by = "rule") =>
                        /\ old.pc = "send"
                        /\ old.marks = 1
                /\ (old.pc = "mark" /\ quota' = quota) =>
                        /\ Len(tasks') = Len(tasks)
                        /\ tasks'[t].pc \in {"delay", "fetch", "send"}
                        /\ tasks'[t].marks = 1
                        /\ RowsOf(store', id) # {}
                        /\ \A i \in RowsOf(store', id) : store'[i].auto_reply_sent
                        /\ sent' = sent
                /\ (old.pc = "mark" /\ quota' # quota) =>
                        /\ tasks' = Remove(tasks, t)
                        /\ UNCHANGED <<store, sent>>
                        /\ console' = console \cup {"Message processing error"}]_vars

\* the UPDATE of the one event received has failed: the row is stored without the
\* mark, nothing was sent and the handler has left through the outer catch
C29_Witness ==
    /\ tasks = <<>>
    /\ sent = <<>>
    /\ [id |-> "M1", path |-> "rules"] \in paths
    /\ "Message processing error" \in console
    /\ Len(store) = 1
    /\ ~store[1].auto_reply_sent

-----------------------------------------------------------------------------
(* The environment of the retry specification: calls of withRetry one after *)
(* the other, as every call site makes them (no maxRetries, no delay        *)
(* argument), under each setting of config.MAX_RETRIES                      *)

\* config.MAX_RETRIES is unset (0) or at most this
MaxAttempts == 3
\* the calls made in one behaviour
MaxRetryCalls == 2

\* the messages of the Errors the operation rejects with
ErrorMessages ==
    { SocketHangUp,
      <<"request failed, reason: ", "socket hang up">>,
      <<"Socket Hang Up">>,
      <<"read ECONNRESET">> }

\* what invocation k of the operation settles with
OperationOutcomes(k) ==
    {[ok |-> TRUE, value |-> k, message |-> EMPTY]}
    \cup {[ok |-> FALSE, value |-> k, message |-> m] : m \in ErrorMessages}

InitRetry ==
    /\ store = <<>>
    /\ mediaCache = <<>>
    /\ replyRules = PipelineRules
    /\ clock = 0
    /\ tasks = <<>>
    /\ sent = <<>>
    /\ console = {}
    /\ paths = {}
    /\ quota = [events |-> MaxRetryCalls, faulty |-> TRUE]

NextRetry ==
    \/ \E configMax \in 0..MaxAttempts :
          WithRetryCall(DefaultMaxRetries(configMax), DefaultDelay)
    \/ \E t \in DOMAIN tasks :
          \E outcome \in OperationOutcomes(tasks[t].attempt) : WithRetryAttempt(t, outcome)
    \/ \E t \in DOMAIN tasks : WithRetryDelay(t)
    \/ \E t \in DOMAIN tasks : WithRetryReturn(t)

SpecRetry == InitRetry /\ [][NextRetry]_vars

-----------------------------------------------------------------------------
(* Properties of withRetry, checked under SpecRetry *)

RetryCalls == {t \in DOMAIN tasks : tasks[t].kind = "retry"}

\* the failure is of the transient class: its message contains 'socket hang up'
Transient(err) == \E i \in DOMAIN err.message : err.message[i] = "socket hang up"

\* C11: a failure that is not transient is the last thing its call has seen: the call
\* has thrown that failure, and it has made no invocation and started no timer since
\* (attempt k failed after k invocations and k - 1 timers)
C11_NonTransientPropagates ==
    \A t \in RetryCalls :
        \A k \in DOMAIN tasks[t].failures :
            ~Transient(tasks[t].failures[k]) =>
                /\ tasks[t].pc = "thrown"
                /\ tasks[t].result = tasks[t].failures[k]
                /\ tasks[t].failures[k].value = k
                /\ Len(tasks[t].invoked) = k
                /\ Len(tasks[t].sleeps) = k - 1
                /\ clock = tasks[t].invoked[k]

\* a call has thrown a failure that is not transient on its second attempt or later
\* while attempts were left
C11_Witness ==
    \E t \in RetryCalls :
        /\ tasks[t].pc = "thrown"
        /\ ~Transient(tasks[t].result)
        /\ Len(tasks[t].invoked) >= 2
        /\ Len(tasks[t].invoked) < tasks[t].maxRetries

\* C12: the operation is invoked at most maxRetries times; one timer of the delay is
\* between two consecutive invocations and the later invocation is not before its
\* end; no timer follows invocation maxRetries; and a call whose maxRetries attempts
\* have all failed has thrown the failure of the last one
C12_BoundedAttempts ==
    \A t \in RetryCalls :
        LET c == tasks[t]
        IN  /\ Len(c.invoked) <= c.maxRetries
            /\ Len(c.sleeps) <= c.maxRetries - 1
            /\ Len(c.sleeps) = IF c.pc = "sleep" THEN Len(c.invoked)
                               ELSE Len(c.invoked) - 1
            /\ \A i \in DOMAIN c.sleeps :
                  /\ c.sleeps[i].ms = c.delay
                  /\ c.sleeps[i].at >= c.invoked[i]
                  /\ (i + 1 \in DOMAIN c.invoked) =>
                        c.invoked[i + 1] >= c.sleeps[i].at + c.delay
            /\ c.pc \in {"await", "sleep", "returned", "thrown"}
            /\ (Len(c.failures) = c.maxRetries) =>
                  /\ c.pc = "thrown"
                  /\ c.result = c.failures[c.maxRetries]
                  /\ c.result.value = c.maxRetries

\* every attempt of a call with more than one attempt has failed with a socket hang up
C12_Witness ==
    \E t \in RetryCalls :
        /\ tasks[t].maxRetries >= 2
        /\ Len(tasks[t].failures) = tasks[t].maxRetries
        /\ \A k \in DOMAIN tasks[t].failures : Transient(tasks[t].failures[k])

\* C13: a call that has completed normally returns the value of its last invocation,
\* which succeeded after k - 1 transient failures and k <= maxRetries invocations
C13_ReturnsFirstSuccess ==
    \A t \in RetryCalls :
        LET c == tasks[t]
        IN  c.pc = "returned" =>
               /\ c.result # NONE
               /\ c.result.ok
               /\ c.result.value = Len(c.invoked)
               /\ Len(c.invoked) \in 1..c.maxRetries
               /\ Len(c.failures) = Len(c.invoked) - 1
               /\ \A k \in DOMAIN c.failures : Transient(c.failures[k])

\* a call has returned the value of its last allowed attempt after failures
C13_Witness ==
    \E t \in RetryCalls :
        /\ tasks[t].pc = "returned"
        /\ tasks[t].maxRetries >= 2
        /\ tasks[t].result.value = tasks[t].maxRetries

====
